---------------------------- MODULE Spec2Model ----------------------------
(***************************************************************************)
(* A model of src/uai.ts (the instrumented Agent, lines 1-773): the XML    *)
(* codec, the fallback synthesizer and the staged pipeline of Agent.run.   *)
(*                                                                         *)
(* Text is a tuple of one-character strings, so that the codec's regular   *)
(* expressions are modelled on characters.  A JavaScript value is a record *)
(* [t |-> tag, v |-> payload].                                             *)
(***************************************************************************)
EXTENDS Integers, Sequences, FiniteSets, TLC

(***************************************************************************)
(* JavaScript values                                                       *)
(***************************************************************************)
Str(s)  == [t |-> "str",  v |-> s]
Num(n)  == [t |-> "num",  v |-> n]
Bool(b) == [t |-> "bool", v |-> b]
Obj(es) == [t |-> "obj",  v |-> es]     \* es: entries <<[k |-> key, v |-> value]>> in key order
Arr(xs) == [t |-> "arr",  v |-> xs]
Undefined == [t |-> "undef", v |-> 0]
Null      == [t |-> "null",  v |-> 0]

IsStr(x)  == x.t = "str"
IsObj(x)  == x.t = "obj"
IsArr(x)  == x.t = "arr"
IsUndef(x) == x.t = "undef"

\* JavaScript truthiness (the operand of ||, && and if)
Truthy(x) ==
  CASE x.t = "undef" -> FALSE
    [] x.t = "null"  -> FALSE
    [] x.t = "bool"  -> x.v
    [] x.t = "str"   -> x.v # <<>>
    [] x.t = "num"   -> x.v.int # 0 \/ x.v.frac # <<>>
    [] OTHER         -> TRUE

(***************************************************************************)
(* Characters and strings                                                  *)
(***************************************************************************)
Whitespace == {" ", "\n", "\t"}
Digits == {"0", "1", "2", "3", "4", "5", "6", "7", "8", "9"}
Lower == {"a", "b", "c", "d", "e", "f", "g", "h", "i", "j", "k", "l", "m",
          "n", "o", "p", "q", "r", "s", "t", "u", "v", "w", "x", "y", "z"}
Upper == {"A", "B", "C", "D", "E", "F", "G", "H", "I", "J", "K", "L", "M",
          "N", "O", "P", "Q", "R", "S", "T", "U", "V", "W", "X", "Y", "Z"}

DigitVal(c) ==
  CASE c = "0" -> 0 [] c = "1" -> 1 [] c = "2" -> 2 [] c = "3" -> 3 [] c = "4" -> 4
    [] c = "5" -> 5 [] c = "6" -> 6 [] c = "7" -> 7 [] c = "8" -> 8 [] c = "9" -> 9

LowerChar(c) ==
  CASE c = "A" -> "a" [] c = "B" -> "b" [] c = "C" -> "c" [] c = "D" -> "d"
    [] c = "E" -> "e" [] c = "F" -> "f" [] c = "G" -> "g" [] c = "H" -> "h"
    [] c = "I" -> "i" [] c = "J" -> "j" [] c = "K" -> "k" [] c = "L" -> "l"
    [] c = "M" -> "m" [] c = "N" -> "n" [] c = "O" -> "o" [] c = "P" -> "p"
    [] c = "Q" -> "q" [] c = "R" -> "r" [] c = "S" -> "s" [] c = "T" -> "t"
    [] c = "U" -> "u" [] c = "V" -> "v" [] c = "W" -> "w" [] c = "X" -> "x"
    [] c = "Y" -> "y" [] c = "Z" -> "z" [] OTHER -> c

\* String.prototype.toLowerCase
toLowerCase(s) == [i \in 1..Len(s) |-> LowerChar(s[i])]

\* String.prototype.trim
trim(s) ==
  LET keep == {i \in 1..Len(s) : s[i] \notin Whitespace} IN
  IF keep = {} THEN <<>>
  ELSE LET lo == CHOOSE i \in keep : \A j \in keep : i <= j
           hi == CHOOSE i \in keep : \A j \in keep : i >= j
       IN SubSeq(s, lo, hi)

HasChar(s, c) == \E i \in 1..Len(s) : s[i] = c

\* sub occurs in s at position p
OccursAt(s, sub, p) ==
  /\ p >= 1
  /\ p + Len(sub) - 1 <= Len(s)
  /\ \A k \in 1..Len(sub) : s[p + k - 1] = sub[k]

\* String.prototype.includes
includes(s, sub) == \E p \in 1..(Len(s) + 1) : OccursAt(s, sub, p)

\* String.prototype.substring(0, n)
substring0(s, n) == SubSeq(s, 1, IF Len(s) < n THEN Len(s) ELSE n)

(***************************************************************************)
(* Object property order: Object.keys lists canonical array-index keys     *)
(* first, in ascending numeric order, then the other keys in insertion     *)
(* order; assigning to an existing key keeps its position.                 *)
(***************************************************************************)
RECURSIVE DigitsToNat(_)
DigitsToNat(s) ==
  IF s = <<>> THEN 0
  ELSE 10 * DigitsToNat(SubSeq(s, 1, Len(s) - 1)) + DigitVal(s[Len(s)])

IsIndexKey(k) ==
  /\ k # <<>>
  /\ \A i \in 1..Len(k) : k[i] \in Digits
  /\ (Len(k) > 1 => k[1] # "0")

HasKey(es, k) == \E i \in 1..Len(es) : es[i].k = k

\* obj[k], undefined when absent
GetKey(es, k) ==
  IF HasKey(es, k)
  THEN es[CHOOSE i \in 1..Len(es) : es[i].k = k].v
  ELSE Undefined

\* obj[k] = v
SetKey(es, k, v) ==
  IF HasKey(es, k)
  THEN [i \in 1..Len(es) |-> IF es[i].k = k THEN [k |-> k, v |-> v] ELSE es[i]]
  ELSE LET before(i) == IF IsIndexKey(k)
                        THEN IsIndexKey(es[i].k) /\ DigitsToNat(es[i].k) < DigitsToNat(k)
                        ELSE TRUE
           n == Cardinality({i \in 1..Len(es) : before(i)})
       IN SubSeq(es, 1, n) \o <<[k |-> k, v |-> v]>> \o SubSeq(es, n + 1, Len(es))

\* Object.keys
Keys(es) == [i \in 1..Len(es) |-> es[i].k]

\* property read x[k] on any value: own properties of objects only
Prop(x, k) == IF IsObj(x) THEN GetKey(x.v, k) ELSE Undefined

(***************************************************************************)
(* Numbers: a number is [neg, int, frac], frac the fraction's digits       *)
(* without trailing zeros.                                                 *)
(***************************************************************************)
RECURSIVE StripTrailingZeros(_)
StripTrailingZeros(s) ==
  IF s # <<>> /\ s[Len(s)] = "0" THEN StripTrailingZeros(SubSeq(s, 1, Len(s) - 1)) ELSE s

NumOf(neg, intDigits, fracDigits) ==
  LET i == DigitsToNat(intDigits)
      f == StripTrailingZeros(fracDigits)
  IN Num([neg |-> neg /\ (i # 0 \/ f # <<>>), int |-> i, frac |-> f])

Zero == NumOf(FALSE, <<"0">>, <<>>)

AllDigits(s) == \A i \in 1..Len(s) : s[i] \in Digits

\* /^\d+(\.\d+)?$/
IsPlainNumber(s) ==
  \/ s # <<>> /\ AllDigits(s)
  \/ \E d \in 2..(Len(s) - 1) :
       /\ s[d] = "."
       /\ AllDigits(SubSeq(s, 1, d - 1))
       /\ AllDigits(SubSeq(s, d + 1, Len(s)))

\* Number(s) for s matching IsPlainNumber
PlainNumber(s) ==
  IF AllDigits(s) THEN NumOf(FALSE, s, <<>>)
  ELSE LET d == CHOOSE d \in 2..(Len(s) - 1) : s[d] = "." IN
       NumOf(FALSE, SubSeq(s, 1, d - 1), SubSeq(s, d + 1, Len(s)))

(***************************************************************************)
(* The string literals of the source                                       *)
(***************************************************************************)
C_null == <<"n", "u", "l", "l">>
C_true  == <<"t", "r", "u", "e">>
C_false == <<"f", "a", "l", "s", "e">>
C_response == <<"r", "e", "s", "p", "o", "n", "s", "e">>
C_message == <<"m", "e", "s", "s", "a", "g", "e">>
C_thinking == <<"t", "h", "i", "n", "k", "i", "n", "g">>
C_comment == <<"c", "o", "m", "m", "e", "n", "t">>
C_GeneratedContent ==
  <<"G", "e", "n", "e", "r", "a", "t", "e", "d", " ", "c", "o", "n", "t", "e", "n",
    "t">>
C_Processing ==
  <<"P", "r", "o", "c", "e", "s", "s", "i", "n", "g", " ", "y", "o", "u", "r", " ",
    "r", "e", "q", "u", "e", "s", "t", " ", "a", "n", "d", " ", "g", "e", "n", "e",
    "r", "a", "t", "i", "n", "g", " ", "a", "p", "p", "r", "o", "p", "r", "i", "a",
    "t", "e", " ", "r", "e", "s", "p", "o", "n", "s", "e", ".">>
C_FallbackValue ==
  <<"F", "a", "l", "l", "b", "a", "c", "k", " ", "v", "a", "l", "u", "e">>
C_ResponseGenerated ==
  <<"R", "e", "s", "p", "o", "n", "s", "e", " ", "g", "e", "n", "e", "r", "a", "t",
    "e", "d">>
C_IUnderstand ==
  <<"I", " ", "u", "n", "d", "e", "r", "s", "t", "a", "n", "d", " ", "y", "o", "u",
    "r", " ", "r", "e", "q", "u", "e", "s", "t", " ", "a", "b", "o", "u", "t", ":",
    " ">>
C_ImWorking ==
  <<".", " ", "I", "'", "m", " ", "w", "o", "r", "k", "i", "n", "g", " ", "o", "n",
    " ", "i", "m", "p", "r", "o", "v", "i", "n", "g", " ", "m", "y", " ", "r", "e",
    "s", "p", "o", "n", "s", "e", " ", "f", "o", "r", "m", "a", "t", ".">>
C_relevant_servers ==
  <<"r", "e", "l", "e", "v", "a", "n", "t", "_", "s", "e", "r", "v", "e", "r", "s">>
C_server_names == <<"s", "e", "r", "v", "e", "r", "_", "n", "a", "m", "e", "s">>
C_selected_tools ==
  <<"s", "e", "l", "e", "c", "t", "e", "d", "_", "t", "o", "o", "l", "s">>
C_tool_names == <<"t", "o", "o", "l", "_", "n", "a", "m", "e", "s">>
C_parameters == <<"p", "a", "r", "a", "m", "e", "t", "e", "r", "s">>

(***************************************************************************)
(* Schemas (zod).  A schema is a record with a type name; an object schema *)
(* carries its shape, the fields <<[k |-> name, s |-> schema]>> in         *)
(* declaration order.                                                      *)
(***************************************************************************)
ZodString  == [typeName |-> "ZodString"]
ZodNumber  == [typeName |-> "ZodNumber"]
ZodBoolean == [typeName |-> "ZodBoolean"]
ZodEnum(values)   == [typeName |-> "ZodEnum", values |-> values]
ZodArray(element) == [typeName |-> "ZodArray", element |-> element]
ZodObject(shape)  == [typeName |-> "ZodObject", shape |-> shape]
ZodOptional(inner) == [typeName |-> "ZodOptional", inner |-> inner]
ZodNullable(inner) == [typeName |-> "ZodNullable", inner |-> inner]

(***************************************************************************)
(* The agents, inputs and replies of the model                             *)
(***************************************************************************)
MaxServers == 2

N_weather == <<"w", "e", "a", "t", "h", "e", "r">>
N_calc == <<"c", "a", "l", "c">>
N_search == <<"s", "e", "a", "r", "c", "h">>
N_forecast == <<"f", "o", "r", "e", "c", "a", "s", "t">>
N_add == <<"a", "d", "d">>
K_message == <<"m", "e", "s", "s", "a", "g", "e">>
K_answer == <<"a", "n", "s", "w", "e", "r">>
K_count == <<"c", "o", "u", "n", "t">>
K_done == <<"d", "o", "n", "e">>
K_summary == <<"s", "u", "m", "m", "a", "r", "y">>
K_meta == <<"m", "e", "t", "a">>
K_note == <<"n", "o", "t", "e">>
K_data == <<"d", "a", "t", "a">>
K_items == <<"i", "t", "e", "m", "s">>
K_item == <<"i", "t", "e", "m">>
K_responses == <<"r", "e", "s", "p", "o", "n", "s", "e", "s">>
K_city == <<"c", "i", "t", "y">>
K_result == <<"r", "e", "s", "u", "l", "t">>
V_hello == <<"h", "e", "l", "l", "o">>
V_Oslo == <<"O", "s", "l", "o">>
V_sunny == <<"s", "u", "n", "n", "y">>
V_42 == <<"4", "2">>
V_many == <<"m", "a", "n", "y">>
V_degrees ==
  <<"S", "u", "n", "n", "y", ",", " ", "2", "1", " ", "d", "e", "g", "r", "e", "e", "s">>
V_prose ==
  <<"n", "o", " ", "t", "a", "g", "s", " ", "h", "e", "r", "e", " ", "a", "t", " ",
    "a", "l", "l">>

Field(k, s) == [k |-> k, s |-> s]
Entry(k, v) == [k |-> k, v |-> v]

ServerPool == <<N_weather, N_calc, N_search>>
ToolLists == {<<>>, <<N_forecast>>, <<N_forecast, N_add>>}

InputFormat == ZodObject(<<Field(K_message, ZodString)>>)
Inputs == {Obj(<<Entry(K_message, Str(V_hello))>>),
           Obj(<<Entry(K_message, Num([neg |-> FALSE, int |-> 123, frac |-> <<>>]))>>),
           Obj(<<>>)}

F_answer  == ZodObject(<<Field(K_answer, ZodString)>>)
F_chat    == ZodObject(<<Field(C_response, ZodString), Field(K_count, ZodNumber),
                         Field(K_done, ZodOptional(ZodBoolean))>>)
F_summary == ZodObject(<<Field(K_summary, ZodString),
                         Field(K_meta, ZodObject(<<Field(K_note, ZodString)>>))>>)
F_nested  == ZodObject(<<Field(K_data, ZodObject(<<Field(K_items, ZodArray(ZodString))>>))>>)
F_top     == ZodObject(<<Field(K_responses, ZodArray(ZodString))>>)
OutputFormats == {F_answer, F_chat, F_summary, F_nested, F_top}

\* <name>content</name>, the text a completion service is asked to emit
Tag(name, content) == <<"<">> \o name \o <<">">> \o content \o <<"<", "/">> \o name \o <<">">>

NullReply == Null          \* a reply whose content is not text
TextReplies(texts) == {Str(x) : x \in texts} \cup {NullReply}

ServerSelectionReplies ==
  TextReplies({V_prose, <<>>,
    Tag(C_relevant_servers, Tag(C_server_names, N_weather)),
    Tag(C_relevant_servers, Tag(C_server_names, N_calc)),
    Tag(C_relevant_servers, Tag(C_server_names, Tag(K_item, N_weather) \o Tag(K_item, N_calc))),
    <<"<">> \o C_relevant_servers \o <<">">> \o Tag(C_server_names, N_weather),
    Tag(K_items, N_weather)})

ToolSelectionReplies ==
  TextReplies({V_prose, <<>>,
    Tag(C_selected_tools, Tag(C_tool_names, N_forecast)),
    Tag(C_selected_tools, Tag(C_tool_names, N_add)),
    Tag(C_selected_tools, Tag(C_tool_names, Tag(K_item, N_forecast) \o Tag(K_item, N_add))),
    Tag(K_items, N_forecast)})

ParameterReplies ==
  TextReplies({V_prose, <<>>, Tag(K_city, V_Oslo), Tag(C_parameters, Tag(K_city, V_Oslo))})

GenerationReplies ==
  TextReplies({V_prose, <<>>,
    Tag(K_answer, V_42),
    Tag(K_answer, C_true),
    Tag(K_answer, V_degrees),
    <<"<">> \o K_answer \o <<">">> \o V_42,
    Tag(C_response, Tag(K_answer, V_sunny)),
    Tag(K_result, Tag(K_answer, V_sunny) \o Tag(K_count, V_42)),
    Tag(C_response, V_degrees) \o Tag(K_count, V_42) \o Tag(K_done, C_true),
    Tag(C_response, C_true) \o Tag(K_count, V_many),
    Tag(K_summary, V_sunny) \o Tag(K_meta, Tag(K_note, V_hello)),
    Tag(K_data, Tag(K_items, V_sunny))})

ToolResultValues == {Obj(<<Entry(K_result, Str(V_sunny))>>)}

(***************************************************************************)
(* xmlToObj, src/uai.ts:139-190                                            *)
(***************************************************************************)

NoMatch == [found |-> FALSE]

Min(S) == CHOOSE x \in S : \A y \in S : x <= y
Max(S) == CHOOSE x \in S : \A y \in S : x >= y

\* first position >= from at which sub occurs, 0 if none
FirstOf(ps) == IF ps = {} THEN 0 ELSE Min(ps)
IndexOf(s, sub, from) ==
  FirstOf({p \in from..(Len(s) - Len(sub) + 1) : OccursAt(s, sub, p)})

\* One attempt of tagRegex (line 152) at position i.  The tag name is a prefix
\* of head, the text between "<" and the first ">" (at gt), without whitespace
\* and "/"; the engine tries the longest name first and backtracks to shorter
\* ones until a closing tag follows; the content is the shortest one (lazy).
\* the longest prefix of head matching [^>\s/]+
NameLimit(bad, head) == IF bad = {} THEN Len(head) ELSE Min(bad) - 1
MaxNameLen(head) ==
  NameLimit({n \in 1..Len(head) : head[n] \in Whitespace \/ head[n] = "/"}, head)

\* the position of the first closing tag of the name of length n, 0 if none
ClosePos(s, head, gt, n) ==
  IndexOf(s, <<"<", "/">> \o SubSeq(head, 1, n) \o <<">">>, gt + 1)

MatchClose(s, head, gt, n, p) ==
  [found |-> TRUE,
   tagName |-> SubSeq(head, 1, n),
   tagContent |-> SubSeq(s, gt + 1, p - 1),
   lastIndex |-> p + n + 3]
MatchName(s, head, gt, n) == MatchClose(s, head, gt, n, ClosePos(s, head, gt, n))
MatchLens(s, head, gt, lens) ==
  IF lens = {} THEN NoMatch ELSE MatchName(s, head, gt, Max(lens))
MatchHead(s, head, gt) ==
  MatchLens(s, head, gt, {n \in 1..MaxNameLen(head) : ClosePos(s, head, gt, n) # 0})
MatchFrom(s, i, gt) ==
  IF gt = 0 THEN NoMatch ELSE MatchHead(s, SubSeq(s, i + 1, gt - 1), gt)
MatchAt(s, i) ==
  IF i > Len(s) \/ s[i] # "<" THEN NoMatch
  ELSE MatchFrom(s, i, IndexOf(s, <<">">>, i + 1))

\* tagRegex.exec(content) from lastIndex: the leftmost match
ExecAt(s, starts) == IF starts = {} THEN NoMatch ELSE MatchAt(s, Min(starts))
Exec(s, from) == ExecAt(s, {i \in from..Len(s) : MatchAt(s, i).found})

\* lines 167-176: a tag content without "<"
ScalarOf(trimmedContent) ==
  IF trimmedContent = C_true THEN Bool(TRUE)
  ELSE IF trimmedContent = C_false THEN Bool(FALSE)
  ELSE IF IsPlainNumber(trimmedContent) THEN PlainNumber(trimmedContent)
  ELSE Str(trimmedContent)
SimpleValue(tagContent) == ScalarOf(trim(tagContent))

RECURSIVE parseElement(_)
RECURSIVE ScanTags(_, _, _)
\* lines 163-177: the value stored under a tag
TagValue(tagContent) ==
  IF HasChar(trim(tagContent), "<")
  THEN parseElement(tagContent)
  ELSE SimpleValue(tagContent)

\* the while loop of lines 158-178, from lastIndex = from
ScanStep(content, m, result) ==
  IF ~ m.found THEN result
  ELSE ScanTags(content, m.lastIndex, SetKey(result, m.tagName, TagValue(m.tagContent)))
ScanTags(content, from, result) == ScanStep(content, Exec(content, from), result)

\* a strict parser that raises when no tag pair is found
ResultOfStrict(content, entries) == IF entries = <<>> THEN [t |-> "threw", v |-> 0] ELSE Obj(entries)

\* lines 181-186: hasMatches holds exactly when a key was stored
ResultOf(content, entries) == IF entries = <<>> THEN Str(content) ELSE Obj(entries)
ParseTrimmed(content) ==
  IF ~ HasChar(content, "<") THEN Str(content)
  ELSE ResultOf(content, ScanTags(content, 1, <<>>))

\* a parser without the trim of line 142
parseElementUntrimmed(content) == ParseTrimmed(content)

\* parseElement, lines 141-187
parseElement(content) == ParseTrimmed(trim(content))

\* a call that raised
Threw == [t |-> "threw", v |-> 0]

\* the result of xmlToObj(xmlContent); a reply that is not text (null) makes
\* content.trim() raise
Decode(xmlContent) ==
  IF IsStr(xmlContent) THEN parseElement(xmlContent.v) ELSE Threw

\* the decoded replies of the model, evaluated once
KnownReplies ==
  ServerSelectionReplies \cup ToolSelectionReplies \cup ParameterReplies
    \cup GenerationReplies
DecodedReplies == {<<r, Decode(r)>> : r \in KnownReplies}

xmlToObj(xmlContent) ==
  IF xmlContent \in KnownReplies
  THEN (CHOOSE p \in DecodedReplies : p[1] = xmlContent)[2]
  ELSE Decode(xmlContent)

(***************************************************************************)
(* schema.parse                                                            *)
(***************************************************************************)
Failed == [ok |-> FALSE, value |-> Undefined]
Passed(x) == [ok |-> TRUE, value |-> x]

\* schema.parse(x): the parsed value, or failure (a ZodError).  An object schema
\* strips the keys it does not declare.
RECURSIVE Parse(_, _)
RECURSIVE ParseShape(_, _, _)
ParseShape(shape, x, acc) ==
  IF shape = <<>> THEN Passed(Obj(acc))
  ELSE LET f == Head(shape)
           r == Parse(f.s, Prop(x, f.k))
       IN IF ~ r.ok THEN Failed
          ELSE ParseShape(Tail(shape), x,
                 IF IsUndef(r.value) /\ ~ HasKey(x.v, f.k) THEN acc
                 ELSE SetKey(acc, f.k, r.value))

RECURSIVE ParseItems(_, _, _)
ParseItems(element, xs, acc) ==
  IF xs = <<>> THEN Passed(Arr(acc))
  ELSE LET r == Parse(element, Head(xs)) IN
       IF ~ r.ok THEN Failed ELSE ParseItems(element, Tail(xs), Append(acc, r.value))

Parse(schema, x) ==
  CASE schema.typeName = "ZodString"  -> IF x.t = "str" THEN Passed(x) ELSE Failed
    [] schema.typeName = "ZodNumber"  -> IF x.t = "num" THEN Passed(x) ELSE Failed
    [] schema.typeName = "ZodBoolean" -> IF x.t = "bool" THEN Passed(x) ELSE Failed
    [] schema.typeName = "ZodEnum"    ->
         IF x.t = "str" /\ x.v \in schema.values THEN Passed(x) ELSE Failed
    [] schema.typeName = "ZodArray"   ->
         IF IsArr(x) THEN ParseItems(schema.element, x.v, <<>>) ELSE Failed
    [] schema.typeName = "ZodObject"  ->
         IF IsObj(x) THEN ParseShape(schema.shape, x, <<>>) ELSE Failed
    [] schema.typeName = "ZodOptional" ->
         IF IsUndef(x) THEN Passed(x) ELSE Parse(schema.inner, x)
    [] schema.typeName = "ZodNullable" ->
         IF x.t = "null" THEN Passed(x) ELSE Parse(schema.inner, x)

\* getSchemaTypeName, src/uai.ts:221-226
RECURSIVE getSchemaTypeName(_)
getSchemaTypeName(schema) ==
  IF schema.typeName \in {"ZodOptional", "ZodNullable"}
  THEN getSchemaTypeName(schema.inner)
  ELSE schema.typeName

\* the dotted paths of the array fields of a shape, in declaration order
RECURSIVE ArrayPaths(_, _)
ArrayPaths(shape, prefix) ==
  IF shape = <<>> THEN <<>>
  ELSE LET f == Head(shape)
           path == IF prefix = <<>> THEN f.k ELSE prefix \o <<".">> \o f.k
           here == IF f.s.typeName = "ZodArray" THEN <<path>>
                   ELSE IF f.s.typeName = "ZodObject" THEN ArrayPaths(f.s.shape, path)
                   ELSE IF f.s.typeName \in {"ZodOptional", "ZodNullable"}
                   THEN ArrayPaths(<<[k |-> f.k, s |-> f.s.inner]>>, prefix)
                   ELSE <<>>
       IN here \o ArrayPaths(Tail(shape), prefix)

(***************************************************************************)
(* JSON.stringify                                                          *)
(***************************************************************************)
DigitChar(d) == CHOOSE c \in Digits : DigitVal(c) = d

RECURSIVE NatToDigits(_)
NatToDigits(n) ==
  IF n < 10 THEN <<DigitChar(n)>> ELSE NatToDigits(n \div 10) \o <<DigitChar(n % 10)>>

NumToText(n) ==
  (IF n.neg THEN <<"-">> ELSE <<>>) \o NatToDigits(n.int)
    \o (IF n.frac = <<>> THEN <<>> ELSE <<".">> \o n.frac)

RECURSIVE JSONstringify(_)
RECURSIVE JSONentries(_, _)
RECURSIVE JSONitems(_, _)
JSONentries(es, first) ==
  IF es = <<>> THEN <<>>
  ELSE IF IsUndef(Head(es).v) THEN JSONentries(Tail(es), first)
  ELSE (IF first THEN <<>> ELSE <<",">>)
         \o <<"\"">> \o Head(es).k \o <<"\"", ":">> \o JSONstringify(Head(es).v)
         \o JSONentries(Tail(es), FALSE)
JSONitems(xs, first) ==
  IF xs = <<>> THEN <<>>
  ELSE (IF first THEN <<>> ELSE <<",">>)
         \o (IF IsUndef(Head(xs)) THEN C_null ELSE JSONstringify(Head(xs)))
         \o JSONitems(Tail(xs), FALSE)
JSONstringify(x) ==
  CASE x.t = "str"  -> <<"\"">> \o x.v \o <<"\"">>
    [] x.t = "num"  -> NumToText(x.v)
    [] x.t = "bool" -> IF x.v THEN C_true ELSE C_false
    [] x.t = "null" -> C_null
    [] x.t = "obj"  -> <<"{">> \o JSONentries(x.v, TRUE) \o <<"}">>
    [] x.t = "arr"  -> <<"[">> \o JSONitems(x.v, TRUE) \o <<"]">>

(***************************************************************************)
(* Fallback synthesis                                                      *)
(***************************************************************************)

\* the fallback of one field of createFallbackResponse, src/uai.ts:466-488
FallbackResponseField(key, schema, input) ==
  LET typeName == getSchemaTypeName(schema) IN
  IF typeName = "ZodString" THEN
    IF includes(toLowerCase(key), C_response)
    THEN Str(C_IUnderstand \o JSONstringify(input) \o C_ImWorking)
    ELSE IF includes(toLowerCase(key), C_thinking) \/ includes(toLowerCase(key), C_comment)
    THEN Str(C_Processing)
    ELSE Str(C_GeneratedContent)
  ELSE IF typeName = "ZodArray" THEN Arr(<<>>)
  ELSE IF typeName = "ZodObject" THEN Obj(<<>>)
  ELSE IF typeName = "ZodNumber" THEN Zero
  ELSE IF typeName = "ZodBoolean" THEN Bool(FALSE)
  ELSE Str(C_FallbackValue)

\* createFallbackResponse, src/uai.ts:462-492
RECURSIVE FallbackEntries(_, _, _)
FallbackEntries(shape, input, acc) ==
  IF shape = <<>> THEN acc
  ELSE FallbackEntries(Tail(shape), input,
         SetKey(acc, Head(shape).k, FallbackResponseField(Head(shape).k, Head(shape).s, input)))

createFallbackResponse(outputFormat, input) ==
  Obj(FallbackEntries(outputFormat.shape, input, <<>>))

\* Object.values(parsed), also of a string (its characters)
Values(x) ==
  IF IsObj(x) THEN [i \in 1..Len(x.v) |-> x.v[i].v]
  ELSE IF IsStr(x) THEN [i \in 1..Len(x.v) |-> Str(<<x.v[i]>>)]
  ELSE <<>>

MinFoundLength == 10
RawPrefixLength == 200

\* a synthesizer that reads the type name of an optional or nullable field
\* without unwrapping it
createFallbackForFieldNoUnwrap(key, schema, parsed, response) ==
  LET typeName == schema.typeName IN
  IF typeName = "ZodString" THEN
    IF includes(toLowerCase(key), C_response) \/ includes(toLowerCase(key), C_message)
    THEN LET vs == Values(parsed)
             hits == {i \in 1..Len(vs) : IsStr(vs[i]) /\ Len(vs[i].v) > MinFoundLength}
         IN IF hits # {} THEN vs[CHOOSE i \in hits : \A j \in hits : i <= j]
            ELSE IF substring0(response.v, RawPrefixLength) # <<>>
            THEN Str(substring0(response.v, RawPrefixLength))
            ELSE Str(C_ResponseGenerated)
    ELSE IF includes(toLowerCase(key), C_thinking) \/ includes(toLowerCase(key), C_comment)
    THEN Str(C_Processing)
    ELSE Str(C_GeneratedContent)
  ELSE IF typeName = "ZodArray" THEN Arr(<<>>)
  ELSE IF typeName = "ZodObject" THEN Obj(<<>>)
  ELSE IF typeName = "ZodNumber" THEN Zero
  ELSE IF typeName = "ZodBoolean" THEN Bool(FALSE)
  ELSE Str(C_FallbackValue)

\* createFallbackForField, src/uai.ts:724-748
createFallbackForField(key, schema, parsed, response) ==
  LET typeName == getSchemaTypeName(schema) IN
  IF typeName = "ZodString" THEN
    IF includes(toLowerCase(key), C_response) \/ includes(toLowerCase(key), C_message)
    THEN LET vs == Values(parsed)
             hits == {i \in 1..Len(vs) : IsStr(vs[i]) /\ Len(vs[i].v) > MinFoundLength}
         IN IF hits # {} THEN vs[CHOOSE i \in hits : \A j \in hits : i <= j]
            ELSE IF substring0(response.v, RawPrefixLength) # <<>>
            THEN Str(substring0(response.v, RawPrefixLength))
            ELSE Str(C_ResponseGenerated)
    ELSE IF includes(toLowerCase(key), C_thinking) \/ includes(toLowerCase(key), C_comment)
    THEN Str(C_Processing)
    ELSE Str(C_GeneratedContent)
  ELSE IF typeName = "ZodArray" THEN Arr(<<>>)
  ELSE IF typeName = "ZodObject" THEN Obj(<<>>)
  ELSE IF typeName = "ZodNumber" THEN Zero
  ELSE IF typeName = "ZodBoolean" THEN Bool(FALSE)
  ELSE Str(C_FallbackValue)

(***************************************************************************)
(* Output assembly, src/uai.ts:693-720                                     *)
(***************************************************************************)
\* x[k] as generateResponse reads it: a string has its characters under the
\* index keys (field names are taken not to be names of prototype properties)
Index(x, k) ==
  IF IsObj(x) THEN GetKey(x.v, k)
  ELSE IF IsStr(x) /\ IsIndexKey(k) /\ DigitsToNat(k) < Len(x.v)
  THEN Str(<<x.v[DigitsToNat(k) + 1]>>)
  ELSE Undefined

\* parsed[Object.keys(parsed)[0]]
FirstKeyValue(parsed) ==
  IF IsObj(parsed) /\ parsed.v # <<>> THEN parsed.v[1].v
  ELSE IF IsStr(parsed) /\ parsed.v # <<>> THEN Str(<<parsed.v[1]>>)
  ELSE Undefined

\* an assembly that looks under the first key before it looks under response
ResolveFieldFirstKeyFirst(key, schema, parsed, response) ==
  IF ~ IsUndef(Index(parsed, key)) THEN Index(parsed, key)
  ELSE IF Truthy(FirstKeyValue(parsed)) /\ IsObj(FirstKeyValue(parsed))
  THEN IF ~ IsUndef(Index(FirstKeyValue(parsed), key))
       THEN Index(FirstKeyValue(parsed), key)
       ELSE createFallbackForField(key, schema, parsed, response)
  ELSE IF /\ Truthy(Index(parsed, C_response))
          /\ IsObj(Index(parsed, C_response))
          /\ ~ IsUndef(Index(Index(parsed, C_response), key))
  THEN Index(Index(parsed, C_response), key)
  ELSE createFallbackForField(key, schema, parsed, response)

\* an assembly whose first-key branch lacks the else of line 711
ResolveFieldNoNestedFallback(key, schema, parsed, response) ==
  IF ~ IsUndef(Index(parsed, key)) THEN Index(parsed, key)
  ELSE IF /\ Truthy(Index(parsed, C_response))
          /\ IsObj(Index(parsed, C_response))
          /\ ~ IsUndef(Index(Index(parsed, C_response), key))
  THEN Index(Index(parsed, C_response), key)
  ELSE IF Truthy(FirstKeyValue(parsed)) /\ IsObj(FirstKeyValue(parsed))
  THEN Index(FirstKeyValue(parsed), key)
  ELSE createFallbackForField(key, schema, parsed, response)

\* the value of one output field, lines 699-715
ResolveField(key, schema, parsed, response) ==
  IF ~ IsUndef(Index(parsed, key)) THEN Index(parsed, key)
  ELSE IF /\ Truthy(Index(parsed, C_response))
          /\ IsObj(Index(parsed, C_response))
          /\ ~ IsUndef(Index(Index(parsed, C_response), key))
  THEN Index(Index(parsed, C_response), key)
  ELSE IF Truthy(FirstKeyValue(parsed)) /\ IsObj(FirstKeyValue(parsed))
  THEN IF ~ IsUndef(Index(FirstKeyValue(parsed), key))
       THEN Index(FirstKeyValue(parsed), key)
       ELSE createFallbackForField(key, schema, parsed, response)
  ELSE createFallbackForField(key, schema, parsed, response)

RECURSIVE AssembleEntries(_, _, _, _)
AssembleEntries(shape, parsed, response, acc) ==
  IF shape = <<>> THEN acc
  ELSE AssembleEntries(Tail(shape), parsed, response,
         SetKey(acc, Head(shape).k,
                ResolveField(Head(shape).k, Head(shape).s, parsed, response)))

\* an assembly that starts from the decoded reply instead of an empty object
BuildStructuredResponseOverParsed(outputFormat, response) ==
  IF ~ IsStr(response) THEN Threw
  ELSE Obj(AssembleEntries(outputFormat.shape, xmlToObj(response), response,
                           IF IsObj(xmlToObj(response)) THEN xmlToObj(response).v
                           ELSE <<>>))

\* the object generateResponse returns for a reply text (lines 684-720); a reply
\* that is not text makes response.substring raise at line 684
BuildStructuredResponse(outputFormat, response) ==
  IF ~ IsStr(response) THEN Threw
  ELSE Obj(AssembleEntries(outputFormat.shape, xmlToObj(response), response, <<>>))

(***************************************************************************)
(* Selection and parameter parsing                                         *)
(***************************************************************************)

\* parsed.outer?.inner || []
NamesOf(parsed, outer, inner) ==
  LET o == Index(parsed, outer)
      n == IF o.t \in {"undef", "null"} THEN Undefined ELSE Index(o, inner)
  IN IF Truthy(n) THEN n ELSE Arr(<<>>)

\* the filter predicate of lines 534-538 and 589-593
NameSelected(names, name) ==
  IF IsArr(names)
  THEN \E i \in 1..Len(names.v) : IsStr(names.v[i]) /\ names.v[i].v = name
  ELSE IsStr(names) /\ names.v = name

\* Array.prototype.filter, keeping the candidates' order
RECURSIVE FilterSelected(_, _)
FilterSelected(candidates, names) ==
  IF candidates = <<>> THEN <<>>
  ELSE (IF NameSelected(names, Head(candidates)) THEN <<Head(candidates)>> ELSE <<>>)
         \o FilterSelected(Tail(candidates), names)

\* the parse step of selectRelevantServers, src/uai.ts:529-546
ParseServerSelection(servers, response) ==
  LET parsed == xmlToObj(response) IN
  IF parsed.t = "threw" THEN servers
  ELSE FilterSelected(servers, NamesOf(parsed, C_relevant_servers, C_server_names))

\* the parse step of selectRelevantTools, src/uai.ts:584-601
ParseToolSelection(tools, response) ==
  LET parsed == xmlToObj(response) IN
  IF parsed.t = "threw" THEN SubSeq(tools, 1, 1)
  ELSE FilterSelected(tools, NamesOf(parsed, C_selected_tools, C_tool_names))

\* a parse step without the defaults of lines 638 and 643
ParseToolParametersNoDefault(response) ==
  LET parsed == xmlToObj(response) IN
  IF parsed.t = "threw" THEN Undefined ELSE Index(parsed, C_parameters)

\* the parse step of generateToolParameters, src/uai.ts:635-645
ParseToolParameters(response) ==
  LET parsed == xmlToObj(response) IN
  IF parsed.t = "threw" THEN Obj(<<>>)
  ELSE IF Truthy(Index(parsed, C_parameters)) THEN Index(parsed, C_parameters)
  ELSE Obj(<<>>)

(***************************************************************************)
(* Agent.run, src/uai.ts:360-460.  One action per suspension point: the    *)
(* return (or failure) of an external call together with the synchronous   *)
(* code that follows it up to the next external call.                      *)
(***************************************************************************)
VARIABLES
  agent,            \* "none" until the constructor has returned
  config,           \* this.config
  pc,               \* the external call the run is suspended on
  rawInput,         \* the argument of run
  validatedInput,
  relevantServers,
  serverIdx,        \* position of the for loop of line 398
  tools,            \* the tools discovered for the current server
  relevantTools,
  toolIdx,          \* position of the for loop of line 406
  toolResults,      \* entries of the toolResults record
  discovered,       \* the servers whose discovery answered with a success status
  returned,         \* the invocations that returned, with their results, in order
  trace,            \* the progress updates emitted and the external calls issued, in order
  settled,          \* the number of external calls that have returned or raised
  lastReply,        \* the stage and the reply of the external call that settled last
  assembled,        \* "Final result before validation" (line 718)
  usedFallback,     \* the catch block of line 445 was entered
  outcome,          \* what the promise returned by run settled with
  decoded,          \* a text handed to xmlToObj on its own, and what it returned
  frame,            \* the local variables of a second call of run, suspended
  measured,         \* the open scopes of measure, its log, and how the last scope settled
  computed          \* a value handed to objToXml or convertValue on its own, and the result

vars == <<agent, config, pc, rawInput, validatedInput, relevantServers, serverIdx,
          tools, relevantTools, toolIdx, toolResults, discovered, returned, trace,
          settled, lastReply, assembled, usedFallback, outcome, decoded, frame,
          measured, computed>>

None == [t |-> "none", v |-> 0]
Reply(stage, response) == [stage |-> stage, response |-> response]
NoReply == Reply("none", None)
NoDecode == [input |-> None, output |-> None]
NotComputed == [fn |-> "none", input |-> None, kind |-> "none", output |-> None]
Pending == [status |-> "pending", value |-> None, error |-> "none"]
Resolved(x) == [status |-> "resolved", value |-> x, error |-> "none"]
Rejected(e) == [status |-> "rejected", value |-> None, error |-> e]

L_gpt4o == <<"g", "p", "t", "-", "4", "o">>
L_claude == <<"c", "l", "a", "u", "d", "e", "-", "3", "-", "s", "o", "n", "n", "e", "t",
              "-", "2", "0", "2", "4", "0", "2", "2", "9">>
C_claude == <<"c", "l", "a", "u", "d", "e">>

\* an agent configuration that leaves temperature and maxTokens out
AgentConfig(servers, outputFormat) ==
  [servers |-> servers, inputFormat |-> InputFormat, outputFormat |-> outputFormat,
   llm |-> L_gpt4o, temperature |-> Undefined, maxTokens |-> Undefined]
\* the configuration c for another model and with the options given
WithOptions(c, llm, temperature, maxTokens) ==
  [c EXCEPT !.llm = llm, !.temperature = temperature, !.maxTokens = maxTokens]
NoConfig == AgentConfig(<<>>, F_answer)

\* the agents of the model: up to MaxServers servers; the schemas with an array
\* field, which only construction and output validation look at, without servers
AgentConfigs ==
  {AgentConfig(SubSeq(ServerPool, 1, n), f) : n \in 0..MaxServers, f \in {F_answer, F_chat, F_summary}}
    \cup {AgentConfig(<<>>, f) : f \in OutputFormats}

\* how an operation, or a scope of measure, settled
NotSettled == [status |-> "none", value |-> None, error |-> "none"]
Returned(x) == [status |-> "returned", value |-> x, error |-> "none"]
Raised(e) == [status |-> "raised", value |-> None, error |-> e]
\* no call of measure yet
NotMeasured == [scopes |-> <<>>, log |-> <<>>, calls |-> 0,
                operation |-> NotSettled, scope |-> NotSettled]

\* the local variables of a call of run that has not begun
NotStarted ==
  [pc |-> "idle", rawInput |-> None, validatedInput |-> None, relevantServers |-> <<>>,
   serverIdx |-> 0, tools |-> <<>>, relevantTools |-> <<>>, toolIdx |-> 0,
   toolResults |-> <<>>, discovered |-> <<>>, returned |-> <<>>, trace |-> <<>>, settled |-> 0,
   lastReply |-> NoReply, assembled |-> None, usedFallback |-> FALSE,
   outcome |-> Pending]

Init ==
  /\ agent = "none"
  /\ config = NoConfig
  /\ pc = "idle"
  /\ rawInput = None
  /\ validatedInput = None
  /\ relevantServers = <<>>
  /\ serverIdx = 0
  /\ tools = <<>>
  /\ relevantTools = <<>>
  /\ toolIdx = 0
  /\ toolResults = <<>>
  /\ discovered = <<>>
  /\ returned = <<>>
  /\ trace = <<>>
  /\ settled = 0
  /\ lastReply = NoReply
  /\ assembled = None
  /\ usedFallback = FALSE
  /\ outcome = Pending
  /\ decoded = NoDecode
  /\ frame = NotStarted
  /\ measured = NotMeasured
  /\ computed = NotComputed

\* the constructor, src/uai.ts:356-358: it stores the configuration
Construct ==
  /\ agent = "none"
  /\ \E c \in AgentConfigs : config' = c
  /\ agent' = "constructed"
  /\ UNCHANGED <<computed, returned, measured, frame, settled, decoded, discovered, pc, rawInput, validatedInput, relevantServers,
                 serverIdx, tools, relevantTools, toolIdx, toolResults, trace,
                 lastReply, assembled, usedFallback, outcome>>

\* the entries of the trace
Emitted(update) == [what |-> "event", item |-> update]
Issued(call) == [what |-> "call", item |-> call]

RECURSIVE ItemsOf(_, _)
ItemsOf(tr, what) ==
  IF tr = <<>> THEN <<>>
  ELSE (IF Head(tr).what = what THEN <<Head(tr).item>> ELSE <<>>) \o ItemsOf(Tail(tr), what)

\* the updates passed to progressCallback, in order
events == ItemsOf(trace, "event")
\* the external calls issued, in order
calls == ItemsOf(trace, "call")

\* progress updates and external calls
Update(stage, data) == [stage |-> stage, data |-> data]
\* x || d
OrElse(x, d) == IF Truthy(x) THEN x ELSE d
\* the default of a destructured option: it stands in for undefined alone
DefaultTo(x, d) == IF IsUndef(x) THEN d ELSE x

DefaultTemperature == NumOf(FALSE, <<"0">>, <<"7">>)
DefaultMaxTokens == NumOf(FALSE, <<"4", "0", "0", "0">>, <<>>)
\* the options of the selection and parameter requests: lines 525, 580, 631
SelectionTemperature == NumOf(FALSE, <<"0">>, <<"3">>)
\* the options of the generation request: lines 678-679
GenerationTemperature == OrElse(config.temperature, DefaultTemperature)
GenerationMaxTokens == OrElse(config.maxTokens, DefaultMaxTokens)

\* a completion request as callLLM sends it: the defaults of line 237, and a
\* body without temperature for the models whose name includes "claude"
\* (line 251)
LLMCall(stage, temperature) ==
  [kind |-> "callLLM", stage |-> stage, server |-> <<>>, tool |-> <<>>,
   parameters |-> None,
   temperature |-> IF includes(config.llm, C_claude) THEN Undefined
                   ELSE DefaultTo(temperature, DefaultTemperature),
   maxTokens |-> DefaultTo(IF stage = "response_generation" THEN GenerationMaxTokens
                           ELSE Undefined,
                           DefaultMaxTokens)]
DiscoverCall(server) ==
  [kind |-> "discoverTools", stage |-> "tool_discovery", server |-> server, tool |-> <<>>,
   parameters |-> None, temperature |-> None, maxTokens |-> None]
InvokeCall(server, tool, parameters) ==
  [kind |-> "invokeTool", stage |-> "tool_invocation", server |-> server, tool |-> tool,
   parameters |-> parameters, temperature |-> None, maxTokens |-> None]

ResultKey(server, tool) == server \o <<".">> \o tool

\* a run that hands its argument on unexamined
ValidateInputSkipped(inputFormat, input) == Passed(input)
\* a run that returns the object it built unexamined
ValidateOutputSkipped(outputFormat, response) == Passed(response)

\* line 366
ValidateInput(inputFormat, input) == Parse(inputFormat, input)
\* lines 442-444 and 455-457
ValidateOutput(outputFormat, response) == Parse(outputFormat, response)

\* a run that reports the generation stage only after issuing the request
BeginGenerationUnannounced(tr) ==
  /\ trace' = tr \o <<Issued(LLMCall("response_generation", GenerationTemperature)),
                       Emitted(Update("response_generation", None))>>
  /\ pc' = "generateResponse"

\* lines 430-439: the response_generation update, then the generation request
BeginGeneration(tr) ==
  /\ trace' = tr \o <<Emitted(Update("response_generation", None)),
                       Issued(LLMCall("response_generation", GenerationTemperature))>>
  /\ pc' = "generateResponse"

\* a run that asks all remaining servers for their tools at once
NextServerAllAtOnce(servers, idx, tr) ==
  IF idx <= Len(servers)
  THEN /\ serverIdx' = idx
       /\ trace' = tr \o [i \in 1..(Len(servers) - idx + 1) |->
                             Issued(DiscoverCall(servers[idx + i - 1]))]
       /\ pc' = "discoverTools"
  ELSE /\ serverIdx' = idx
       /\ BeginGeneration(tr)

\* the next iteration of the for loop of line 398, or the end of step 3
NextServer(servers, idx, tr) ==
  IF idx <= Len(servers)
  THEN /\ serverIdx' = idx
       /\ trace' = Append(tr, Issued(DiscoverCall(servers[idx])))
       /\ pc' = "discoverTools"
  ELSE /\ serverIdx' = idx
       /\ BeginGeneration(tr)

\* the next iteration of the for loop of line 406
NextTool(selected, idx, tr) ==
  IF idx <= Len(selected)
  THEN /\ toolIdx' = idx
       /\ trace' = tr \o
            <<Emitted(Update("tool_invocation",
                             Str(ResultKey(relevantServers[serverIdx], selected[idx])))),
              Issued(LLMCall("parameter_generation", SelectionTemperature))>>
       /\ pc' = "generateToolParameters"
       /\ UNCHANGED serverIdx
  ELSE /\ toolIdx' = idx
       /\ NextServer(relevantServers, serverIdx + 1, tr)

\* run is called and the test of line 371 is left out: selection is requested
\* of an agent without servers too
RunAlwaysSelecting ==
  /\ agent = "constructed"
  /\ pc = "idle"
  /\ \E input \in Inputs :
       /\ rawInput' = input
       /\ LET v == ValidateInput(config.inputFormat, input) IN
          IF ~ v.ok
          THEN /\ pc' = "done"
               /\ outcome' = Rejected("ZodError")
               /\ UNCHANGED <<validatedInput, trace, serverIdx>>
          ELSE /\ validatedInput' = v.value
               /\ outcome' = Pending
               /\ trace' = <<Emitted(Update("server_selection", None)),
                             Issued(LLMCall("server_selection", SelectionTemperature))>>
               /\ pc' = "selectRelevantServers"
               /\ UNCHANGED serverIdx
  /\ UNCHANGED <<computed, returned, measured, frame, settled, decoded, discovered, agent, config, relevantServers, tools,
                 relevantTools, toolIdx, toolResults, lastReply, assembled, usedFallback>>

\* run is called: lines 361-386
Run ==
  /\ agent = "constructed"
  /\ pc = "idle"
  /\ \E input \in Inputs :
       /\ rawInput' = input
       /\ LET v == ValidateInput(config.inputFormat, input) IN
          IF ~ v.ok
          THEN /\ pc' = "done"
               /\ outcome' = Rejected("ZodError")
               /\ UNCHANGED <<validatedInput, trace, serverIdx>>
          ELSE /\ validatedInput' = v.value
               /\ outcome' = Pending
               /\ IF Len(config.servers) > 0
                  THEN /\ trace' = <<Emitted(Update("server_selection", None)),
                                      Issued(LLMCall("server_selection", SelectionTemperature))>>
                       /\ pc' = "selectRelevantServers"
                       /\ UNCHANGED serverIdx
                  ELSE NextServer(<<>>, 1, <<>>)
  /\ UNCHANGED <<computed, returned, measured, frame, settled, decoded, discovered, agent, config, relevantServers, tools,
                 relevantTools, toolIdx, toolResults, lastReply, assembled, usedFallback>>

\* callLLM of selectRelevantServers returns: lines 529-546, 381-399
ServerSelectionReturns ==
  /\ pc = "selectRelevantServers"
  /\ settled' = settled + 1
  /\ \E response \in ServerSelectionReplies :
       LET selected == ParseServerSelection(config.servers, response)
           tr == Append(trace, Emitted(Update("server_selection", Arr(selected))))
       IN /\ lastReply' = Reply("server_selection", response)
          /\ relevantServers' = selected
          /\ IF Len(selected) > 0
             THEN NextServer(selected, 1, Append(tr, Emitted(Update("tool_discovery", None))))
             ELSE NextServer(selected, 1, tr)
  /\ UNCHANGED <<computed, returned, measured, frame, decoded, discovered, agent, config, rawInput, validatedInput, tools, relevantTools, toolIdx,
                 toolResults, assembled, usedFallback, outcome>>

\* callLLM raises (lines 269-272) outside every try block of the selection
\* stages: the error leaves run
SelectionFails ==
  /\ pc \in {"selectRelevantServers", "selectRelevantTools"}
  /\ settled' = settled + 1
  /\ lastReply' = Reply(IF pc = "selectRelevantServers" THEN "server_selection"
                         ELSE "tool_selection", Threw)
  /\ pc' = "done"
  /\ outcome' = Rejected("LLM API error")
  /\ UNCHANGED <<computed, returned, measured, frame, decoded, discovered, agent, config, rawInput, validatedInput,
                 relevantServers, serverIdx, tools, relevantTools, toolIdx,
                 toolResults, trace, assembled, usedFallback>>

\* a discovery that reads the body of an answer whatever its status
discoverToolsAnyStatus(status, body) == body

\* what discoverTools returns, src/uai.ts:292-321, for the way the request
\* settled and the tool list in the answer's body: a raised error (line 317)
\* and a non-success status (line 299) both give []
discoverTools(status, body) == IF status = "ok" THEN body ELSE <<>>

\* discoverTools settles; lines 399-404 of run
DiscoveryReturns ==
  /\ pc = "discoverTools"
  /\ settled' = settled + 1
  /\ \E r \in {"raised", "not ok", "ok"}, body \in ToolLists :
       /\ r = "raised" => body = <<>>
       /\ lastReply' = Reply("tool_discovery", IF r = "raised" THEN Threw ELSE Str(<<r>>))
       /\ discovered' = IF r = "ok" THEN Append(discovered, relevantServers[serverIdx])
                                    ELSE discovered
       /\ tools' = discoverTools(r, body)
       /\ IF Len(discoverTools(r, body)) > 0
          THEN /\ trace' = Append(trace, Issued(LLMCall("tool_selection",
                                                         SelectionTemperature)))
               /\ pc' = "selectRelevantTools"
               /\ UNCHANGED <<serverIdx>>
          ELSE NextServer(relevantServers, serverIdx + 1, trace)
  /\ UNCHANGED <<computed, returned, measured, frame, decoded, agent, config, rawInput, validatedInput, relevantServers,
                 relevantTools, toolIdx, toolResults, assembled, usedFallback, outcome>>

\* callLLM of selectRelevantTools returns: lines 584-601, 406-416
ToolSelectionReturns ==
  /\ pc = "selectRelevantTools"
  /\ settled' = settled + 1
  /\ \E response \in ToolSelectionReplies :
       LET selected == ParseToolSelection(tools, response) IN
       /\ lastReply' = Reply("tool_selection", response)
       /\ relevantTools' = selected
       /\ NextTool(selected, 1, trace)
  /\ UNCHANGED <<computed, returned, measured, frame, decoded, discovered, agent, config, rawInput, validatedInput, relevantServers, tools,
                 toolResults, assembled, usedFallback, outcome>>

\* a loop over the discovered tools instead of the selected ones: the first
\* discovered tool is invoked
ParametersReturnInvokesDiscovered ==
  /\ pc = "generateToolParameters"
  /\ settled' = settled + 1
  /\ \E response \in ParameterReplies :
       /\ lastReply' = Reply("parameter_generation", response)
       /\ trace' = Append(trace, Issued(InvokeCall(relevantServers[serverIdx],
                                                   tools[1],
                                                   ParseToolParameters(response))))
  /\ pc' = "invokeTool"
  /\ UNCHANGED <<computed, returned, measured, frame, decoded, discovered, agent, config, rawInput, validatedInput,
                 relevantServers, serverIdx, tools, relevantTools, toolIdx,
                 toolResults, assembled, usedFallback, outcome>>

\* callLLM of generateToolParameters returns: lines 635-645, 418
ParametersReturn ==
  /\ pc = "generateToolParameters"
  /\ settled' = settled + 1
  /\ \E response \in ParameterReplies :
       /\ lastReply' = Reply("parameter_generation", response)
       /\ trace' = Append(trace, Issued(InvokeCall(relevantServers[serverIdx],
                                                   relevantTools[toolIdx],
                                                   ParseToolParameters(response))))
  /\ pc' = "invokeTool"
  /\ UNCHANGED <<computed, returned, measured, frame, decoded, discovered, agent, config, rawInput, validatedInput,
                 relevantServers, serverIdx, tools, relevantTools, toolIdx,
                 toolResults, assembled, usedFallback, outcome>>

\* a loop without the try of line 412: the error leaves run
ToolFailsUncaught ==
  /\ pc \in {"generateToolParameters", "invokeTool"}
  /\ settled' = settled + 1
  /\ lastReply' = Reply(IF pc = "generateToolParameters" THEN "parameter_generation"
                         ELSE "tool_invocation", Threw)
  /\ pc' = "done"
  /\ outcome' = Rejected("Tool invocation failed")
  /\ UNCHANGED <<computed, returned, measured, frame, decoded, discovered, agent, config, rawInput, validatedInput,
                 relevantServers, serverIdx, tools, relevantTools, toolIdx,
                 toolResults, trace, assembled, usedFallback>>

\* a loop that tries a tool a second time when its parameter generation or
\* invocation raised
ToolFailsTriesAgain ==
  /\ pc \in {"generateToolParameters", "invokeTool"}
  /\ settled' = settled + 1
  /\ lastReply' = Reply(IF pc = "generateToolParameters" THEN "parameter_generation"
                         ELSE "tool_invocation", Threw)
  /\ IF Cardinality({q \in 1..Len(trace) :
                       /\ trace[q].what = "event"
                       /\ trace[q].item.stage = "tool_invocation"
                       /\ trace[q].item.data =
                            Str(ResultKey(relevantServers[serverIdx],
                                          relevantTools[toolIdx]))}) < 2
     THEN NextTool(relevantTools, toolIdx, trace)
     ELSE NextTool(relevantTools, toolIdx + 1, trace)
  /\ UNCHANGED <<computed, returned, measured, frame, decoded, discovered, agent, config, rawInput, validatedInput, relevantServers, tools,
                 relevantTools, toolResults, assembled, usedFallback, outcome>>

\* callLLM of generateToolParameters or invokeTool raises: caught at line 421
ToolFails ==
  /\ pc \in {"generateToolParameters", "invokeTool"}
  /\ settled' = settled + 1
  /\ lastReply' = Reply(IF pc = "generateToolParameters" THEN "parameter_generation"
                         ELSE "tool_invocation", Threw)
  /\ NextTool(relevantTools, toolIdx + 1, trace)
  /\ UNCHANGED <<computed, returned, measured, frame, decoded, discovered, agent, config, rawInput, validatedInput, relevantServers, tools,
                 relevantTools, toolResults, assembled, usedFallback, outcome>>

\* invokeTool returns and line 419 is left out: the result is dropped
InvokeReturnsUnrecorded ==
  /\ pc = "invokeTool"
  /\ settled' = settled + 1
  /\ \E result \in ToolResultValues :
       /\ lastReply' = Reply("tool_invocation", result)
       /\ toolResults' = toolResults
       /\ returned' = Append(returned,
                             [key |-> ResultKey(relevantServers[serverIdx],
                                                relevantTools[toolIdx]),
                              result |-> result])
  /\ NextTool(relevantTools, toolIdx + 1, trace)
  /\ UNCHANGED <<computed, measured, frame, decoded, discovered, agent, config, rawInput, validatedInput, relevantServers, tools,
                 relevantTools, assembled, usedFallback, outcome>>

\* invokeTool returns: line 419
InvokeReturns ==
  /\ pc = "invokeTool"
  /\ settled' = settled + 1
  /\ \E result \in ToolResultValues :
       /\ lastReply' = Reply("tool_invocation", result)
       /\ toolResults' = SetKey(toolResults,
                                ResultKey(relevantServers[serverIdx], relevantTools[toolIdx]),
                                result)
       /\ returned' = Append(returned,
                             [key |-> ResultKey(relevantServers[serverIdx],
                                                relevantTools[toolIdx]),
                              result |-> result])
  /\ NextTool(relevantTools, toolIdx + 1, trace)
  /\ UNCHANGED <<computed, measured, frame, decoded, discovered, agent, config, rawInput, validatedInput, relevantServers, tools,
                 relevantTools, assembled, usedFallback, outcome>>

\* a catch block that synthesizes the fallback from the tool results
FallbackFromToolResults ==
  /\ usedFallback' = TRUE
  /\ LET v == ValidateOutput(config.outputFormat,
                             createFallbackResponse(config.outputFormat, Obj(toolResults)))
     IN outcome' = IF v.ok THEN Resolved(v.value) ELSE Rejected("ZodError")

\* the catch block of lines 445-458
Fallback ==
  /\ usedFallback' = TRUE
  /\ LET v == ValidateOutput(config.outputFormat,
                             createFallbackResponse(config.outputFormat, validatedInput))
     IN outcome' = IF v.ok THEN Resolved(v.value) ELSE Rejected("ZodError")

\* a run that asks the completion service again when the assembled object
\* fails validation
GenerationReturnsRetries ==
  /\ pc = "generateResponse"
  /\ settled' = settled + 1
  /\ \E response \in GenerationReplies :
       LET built == BuildStructuredResponse(config.outputFormat, response) IN
       /\ lastReply' = Reply("response_generation", response)
       /\ IF built.t = "threw"
          THEN /\ assembled' = None
               /\ Fallback
               /\ pc' = "done"
               /\ UNCHANGED trace
          ELSE /\ assembled' = built
               /\ IF ValidateOutput(config.outputFormat, built).ok
                  THEN /\ outcome' = Resolved(ValidateOutput(config.outputFormat, built).value)
                       /\ pc' = "done"
                       /\ UNCHANGED <<usedFallback, trace>>
                  ELSE /\ trace' = Append(trace, Issued(LLMCall("response_generation",
                                                                GenerationTemperature)))
                       /\ UNCHANGED <<pc, usedFallback, outcome>>
  /\ UNCHANGED <<computed, returned, measured, frame, decoded, discovered, agent, config, rawInput, validatedInput,
                 relevantServers, serverIdx, tools, relevantTools, toolIdx, toolResults>>

\* callLLM of generateResponse returns: lines 684-720, 441-444
GenerationReturnsFrom(replies) ==
  /\ pc = "generateResponse"
  /\ settled' = settled + 1
  /\ \E response \in replies :
       LET built == BuildStructuredResponse(config.outputFormat, response) IN
       /\ lastReply' = Reply("response_generation", response)
       /\ IF built.t = "threw"
          THEN /\ assembled' = None
               /\ Fallback
          ELSE /\ assembled' = built
               /\ LET v == ValidateOutput(config.outputFormat, built) IN
                  IF v.ok
                  THEN /\ outcome' = Resolved(v.value)
                       /\ usedFallback' = FALSE
                  ELSE Fallback
  /\ pc' = "done"
  /\ UNCHANGED <<computed, returned, measured, frame, decoded, discovered, agent, config, rawInput, validatedInput,
                 relevantServers, serverIdx, tools, relevantTools, toolIdx,
                 toolResults, trace>>

GenerationReturns == GenerationReturnsFrom(GenerationReplies)

\* a run that starts the tool work over when the generation request raises
GenerationFailsStartsOver ==
  /\ pc = "generateResponse"
  /\ settled' = settled + 1
  /\ lastReply' = Reply("response_generation", Threw)
  /\ NextServer(relevantServers, 1, trace)
  /\ UNCHANGED <<computed, returned, measured, frame, decoded, discovered, agent, config, rawInput,
                 validatedInput, relevantServers, tools, relevantTools, toolIdx,
                 toolResults, assembled, usedFallback, outcome>>

\* a run without the try of line 436: the error of callLLM leaves run
GenerationFailsUncaught ==
  /\ pc = "generateResponse"
  /\ settled' = settled + 1
  /\ lastReply' = Reply("response_generation", Threw)
  /\ outcome' = Rejected("LLM API error")
  /\ pc' = "done"
  /\ UNCHANGED <<computed, returned, measured, frame, decoded, discovered, agent, config, rawInput, validatedInput,
                 relevantServers, serverIdx, tools, relevantTools, toolIdx,
                 toolResults, trace, assembled, usedFallback>>

\* callLLM of generateResponse raises inside the try block of line 436
GenerationFails ==
  /\ pc = "generateResponse"
  /\ settled' = settled + 1
  /\ lastReply' = Reply("response_generation", Threw)
  /\ Fallback
  /\ pc' = "done"
  /\ UNCHANGED <<computed, returned, measured, frame, decoded, discovered, agent, config, rawInput, validatedInput,
                 relevantServers, serverIdx, tools, relevantTools, toolIdx,
                 toolResults, trace, assembled>>

Next ==
  \/ Construct
  \/ Run
  \/ ServerSelectionReturns
  \/ SelectionFails
  \/ DiscoveryReturns
  \/ ToolSelectionReturns
  \/ ParametersReturn
  \/ ToolFails
  \/ InvokeReturns
  \/ GenerationReturns
  \/ GenerationFails

Spec == Init /\ [][Next]_vars

\* the external call the run is suspended on returns or fails: a step of one
\* of the actions above that settle a call, each of which counts it in settled
\* (no other action changes settled)
ExternalCallSettles ==
  /\ pc \notin {"idle", "done"}
  /\ settled' = settled + 1

\* runs in which no external call stays outstanding for ever
SpecFair == Init /\ [][Next]_vars /\ WF_settled(ExternalCallSettles)

(***************************************************************************)
(* xmlToObj on its own: the texts built from at most MaxPieces pieces      *)
(***************************************************************************)
MaxPieces == 4

DecodePieces ==
  {<<"<", "a", ">">>, <<"<", "/", "a", ">">>, <<"<", "b", ">", "x", "<", "/", "b", ">">>,
   <<"<", "b", ">">>, <<"<", "/", "b", ">">>, <<"<">>, <<"x">>, <<" ">>, <<"4", "2">>}

RECURSIVE TextsOf(_)
TextsOf(n) ==
  IF n = 0 THEN {<<>>}
  ELSE TextsOf(n - 1) \cup {p \o t : p \in DecodePieces, t \in TextsOf(n - 1)}

DecodeTexts == TextsOf(MaxPieces)

\* xmlToObj is called with a text
DecodeText ==
  /\ decoded = NoDecode
  /\ \E text \in DecodeTexts :
       decoded' = [input |-> Str(text), output |-> xmlToObj(Str(text))]
  /\ UNCHANGED <<computed, returned, measured, frame, settled, agent, config, pc, rawInput, validatedInput, relevantServers,
                 serverIdx, tools, relevantTools, toolIdx, toolResults, discovered,
                 trace, lastReply, assembled, usedFallback, outcome>>

SpecDecode == Init /\ [][DecodeText]_vars

(***************************************************************************)
(* Properties of Agent.run                                                 *)
(***************************************************************************)

\* run has been called with an argument that passes the input schema
InputValid == rawInput # None /\ Parse(config.inputFormat, rawInput).ok
\* run has been called with an argument that fails the input schema
InputInvalid == rawInput # None /\ ~ Parse(config.inputFormat, rawInput).ok

\* the wholesale fallback object of the run
FallbackObject == createFallbackResponse(config.outputFormat, validatedInput)

\* the output schema has no array field at any depth
ArrayFree == ArrayPaths(config.outputFormat.shape, <<>>) = <<>>

\* C1: whatever the completion service and the tool registry reply, a value
\* that run resolves with satisfies the output schema; an object that fails
\* output validation is never returned.
C1_ResolvedSatisfiesOutputFormat ==
  outcome.status = "resolved" => Parse(config.outputFormat, outcome.value).ok

\* a run whose assembled object failed validation and that resolved all the same
C1_Witness ==
  /\ outcome.status = "resolved"
  /\ assembled # None
  /\ ~ Parse(config.outputFormat, assembled).ok
  /\ Len(calls) > 1

\* C2: a run whose input is valid rejects only when the wholesale fallback
\* object fails output validation; no failed completion request, discovery
\* call or invocation call makes it reject.
C2_RejectsOnlyOnInvalidFallback ==
  (InputValid /\ outcome.status = "rejected")
    => (usedFallback /\ ~ Parse(config.outputFormat, FallbackObject).ok)

\* a run with a valid input that rejected without reaching the catch block
C2_Witness ==
  /\ InputValid
  /\ outcome = Rejected("LLM API error")
  /\ ~ usedFallback

\* C3: a run whose input fails the input schema rejects with the ZodError,
\* having emitted no progress event and issued no external call.
C3_InvalidInputRejectsBeforeAnyEffect ==
  InputInvalid => (/\ outcome = Rejected("ZodError")
                   /\ events = <<>>
                   /\ calls = <<>>)

\* run was called with an invalid argument on an agent that has servers
C3_Witness ==
  InputInvalid /\ pc = "done" /\ outcome.status = "rejected" /\ Len(config.servers) > 0

\* C4: an agent whose output schema has an array field, at any depth, is
\* never constructed.
C4_ArrayOutputFormatNotConstructed ==
  agent = "constructed" => ArrayFree

\* an agent constructed with an array nested in an object field
C4_Witness ==
  /\ agent = "constructed"
  /\ config.outputFormat = F_nested
  /\ ArrayPaths(config.outputFormat.shape, <<>>) = <<K_data \o <<".">> \o K_items>>

\* C5: for an output schema without array fields and a valid input, the
\* wholesale fallback object passes output validation.
C5_FallbackSatisfiesArrayFreeFormat ==
  (usedFallback /\ InputValid /\ ArrayFree)
    => Parse(config.outputFormat, FallbackObject).ok

\* a run whose wholesale fallback for a schema with an object field was refused
C5_Witness ==
  /\ usedFallback
  /\ InputValid
  /\ config.outputFormat = F_summary
  /\ GetKey(FallbackObject.v, K_meta) = Obj(<<>>)
  /\ outcome = Rejected("ZodError")

\* C6: the object assembled from a generation reply holds, for every field
\* the output schema declares, a value that is not undefined.
C6_AssembledCoversEveryField ==
  assembled # None =>
    \A i \in 1..Len(config.outputFormat.shape) :
      /\ HasKey(assembled.v, config.outputFormat.shape[i].k)
      /\ ~ IsUndef(GetKey(assembled.v, config.outputFormat.shape[i].k))

\* an object assembled from a reply that names a field under its first tag
\* and lacks the schema's other fields
C6_Witness ==
  /\ assembled # None
  /\ config.outputFormat = F_chat
  /\ lastReply = Reply("response_generation",
                       Str(Tag(K_result, Tag(K_answer, V_sunny) \o Tag(K_count, V_42))))

\* C7: for a string field whose tag holds text that looks numeric or is
\* true/false, run resolves with that text as a string under the field.
C7_NumericTextStaysText ==
  \A text \in {V_42, C_true} :
    (/\ config.outputFormat = F_answer
     /\ lastReply = Reply("response_generation", Str(Tag(K_answer, text))))
      => outcome = Resolved(Obj(<<Entry(K_answer, Str(text))>>))

\* the reply <answer>42</answer> assembled as a number and answered by the
\* wholesale fallback
C7_Witness ==
  /\ config.outputFormat = F_answer
  /\ lastReply = Reply("response_generation", Str(Tag(K_answer, V_42)))
  /\ assembled # None
  /\ GetKey(assembled.v, K_answer).t = "num"
  /\ usedFallback
  /\ outcome = Resolved(Obj(<<Entry(K_answer, Str(C_GeneratedContent))>>))

\* the server-selection replies from which no names list can be read: prose,
\* empty text, an unclosed tag, an unexpected tag
NoNamesServerReplies ==
  {Str(V_prose), Str(<<>>),
   Str(<<"<">> \o C_relevant_servers \o <<">">> \o Tag(C_server_names, N_weather)),
   Str(Tag(K_items, N_weather))}

\* C8: after a server-selection reply from which no names list can be read,
\* the selected servers are all configured servers in their order.
C8_UnreadableReplySelectsAllServers ==
  (lastReply.stage = "server_selection" /\ lastReply.response \in NoNamesServerReplies)
    => relevantServers = config.servers

\* a prose reply after which no server is selected
C8_Witness ==
  /\ lastReply = Reply("server_selection", Str(V_prose))
  /\ Len(config.servers) = 2
  /\ relevantServers = <<>>

\* the tool-selection replies from which no names list can be read
NoNamesToolReplies ==
  {Str(V_prose), Str(<<>>), Str(Tag(K_items, N_forecast))}

\* C9: after a tool-selection reply from which no names list can be read,
\* for a server with discovered tools, exactly the first tool is selected.
C9_UnreadableReplySelectsFirstTool ==
  (/\ lastReply.stage = "tool_selection"
   /\ lastReply.response \in NoNamesToolReplies
   /\ tools # <<>>)
    => relevantTools = <<tools[1]>>

\* a prose reply after which no tool is selected
C9_Witness ==
  /\ lastReply = Reply("tool_selection", Str(V_prose))
  /\ tools = <<N_forecast, N_add>>
  /\ relevantTools = <<>>

\* C10: a completion request of server selection or tool selection that
\* raises does not make the run reject.
C10_SelectionFailureDoesNotReject ==
  (lastReply.stage \in {"server_selection", "tool_selection"}
     /\ lastReply.response.t = "threw")
    => outcome.status # "rejected"

\* a run rejected by the failure of the tool-selection request
C10_Witness ==
  /\ lastReply = Reply("tool_selection", Threw)
  /\ outcome = Rejected("LLM API error")
  /\ pc = "done"


\* the key is the result key of a tool of one of the servers
KeyOfServers(key, names) ==
  \E j \in 1..Len(names), t \in {N_forecast, N_add} : key = ResultKey(names[j], t)

\* the discovery that settled last raised, answered with a non-success status
\* or returned no tool
DiscoveryGaveNothing ==
  /\ lastReply.stage = "tool_discovery"
  /\ \/ lastReply.response.t = "threw"
     \/ lastReply.response = Str(<<"not ok">>)
     \/ tools = <<>>

\* C11: a discovery that fails or returns no tool contributes no tool, the
\* run goes on with the next selected server (or with generation) without
\* rejecting, and the tool results hold only keys of servers whose discovery
\* succeeded.
C11_FailedDiscoveryIsSkipped ==
  /\ DiscoveryGaveNothing =>
       /\ tools = <<>>
       /\ outcome = Pending
       /\ IF serverIdx <= Len(relevantServers)
          THEN /\ pc = "discoverTools"
               /\ calls[Len(calls)] = DiscoverCall(relevantServers[serverIdx])
          ELSE pc = "generateResponse"
  /\ \A i \in 1..Len(toolResults) : KeyOfServers(toolResults[i].k, discovered)

\* two selected servers: the discovery of the first failed, a tool of the
\* second returned a result
C11_Witness ==
  /\ Len(relevantServers) = 2
  /\ discovered = <<relevantServers[2]>>
  /\ Len(toolResults) = 1
  /\ toolResults[1].k = ResultKey(relevantServers[2], N_forecast)


\* the parameter generation or the invocation that settled last raised
ToolFailedLast ==
  /\ lastReply.stage \in {"parameter_generation", "tool_invocation"}
  /\ lastReply.response.t = "threw"

\* C12: a failed parameter generation or invocation of one tool does not
\* leave run, records no result for that tool, and the next selected tool of
\* the server (or the next server, or generation) is processed.
C12_FailedToolIsSkipped ==
  ToolFailedLast =>
    /\ outcome = Pending
    /\ IF toolIdx <= Len(relevantTools)
       THEN /\ ~ HasKey(toolResults,
                        ResultKey(relevantServers[serverIdx], relevantTools[toolIdx - 1]))
            /\ pc = "generateToolParameters"
            /\ calls[Len(calls)] = LLMCall("parameter_generation", SelectionTemperature)
            /\ events[Len(events)] =
                 Update("tool_invocation",
                        Str(ResultKey(relevantServers[serverIdx], relevantTools[toolIdx])))
       ELSE /\ ~ HasKey(toolResults,
                        ResultKey(relevantServers[serverIdx - 1], relevantTools[toolIdx - 1]))
            /\ IF serverIdx <= Len(relevantServers)
               THEN /\ pc = "discoverTools"
                    /\ calls[Len(calls)] = DiscoverCall(relevantServers[serverIdx])
               ELSE pc = "generateResponse"

\* the invocation of the selected tool of the first server raised and the
\* second selected server is being discovered
C12_Witness ==
  /\ lastReply = Reply("tool_invocation", Threw)
  /\ Len(relevantServers) = 2
  /\ serverIdx = 2
  /\ pc = "discoverTools"
  /\ toolResults = <<>>


\* the generation requests among the calls issued so far
GenerationRequestsIn(cs) ==
  {i \in 1..Len(cs) : cs[i] = LLMCall("response_generation", GenerationTemperature)}
GenerationRequests == GenerationRequestsIn(calls)

\* an object was assembled and fails output validation
AssembledInvalid == assembled # None /\ ~ Parse(config.outputFormat, assembled).ok

\* at most one generation request, the last call when an object was assembled
\* that fails validation
RequestedOnce(cs, requests) ==
  /\ Cardinality(requests) <= 1
  /\ AssembledInvalid => requests = {Len(cs)}

\* what the run settles with when it falls back
FallbackOutcome(v) == IF v.ok THEN Resolved(v.value) ELSE Rejected("ZodError")

\* C13: when the assembled object fails output validation the run settles
\* with the wholesale fallback object if that passes validation and rejects
\* if it does not; the generation request is issued once and never again.
C13_InvalidAssemblyFallsBackOnce ==
  /\ RequestedOnce(calls, GenerationRequestsIn(calls))
  /\ AssembledInvalid =>
       /\ usedFallback
       /\ pc = "done"
       /\ outcome = FallbackOutcome(Parse(config.outputFormat, FallbackObject))

\* a run resolved with the wholesale fallback after an invalid assembly
C13_Witness ==
  /\ AssembledInvalid
  /\ config.outputFormat = F_chat
  /\ outcome = Resolved(FallbackObject)


(***************************************************************************)
(* Properties of xmlToObj                                                  *)
(***************************************************************************)

\* xmlToObj was handed a text without any tag
DecodedTagless == decoded # NoDecode /\ ~ HasChar(decoded.input.v, "<")

GenerationReplied == lastReply.stage = "response_generation" /\ IsStr(lastReply.response)

\* the decoded tree holds no value for the key: not directly, not under a
\* response wrapper, not under its first key
NoValueFor(parsed, key) ==
  /\ IsUndef(Index(parsed, key))
  /\ IsUndef(Index(Index(parsed, C_response), key))
  /\ IsUndef(Index(FirstKeyValue(parsed), key))

\* the field is a string field named after a response or a message
EchoField(key, kind) ==
  /\ kind = "ZodString"
  /\ includes(toLowerCase(key), C_response) \/ includes(toLowerCase(key), C_message)

\* the placeholder of a field that is not an echo field
PlaceholderOf(key, kind) ==
  IF kind = "ZodObject" THEN Obj(<<>>)
  ELSE IF kind = "ZodNumber" THEN Zero
  ELSE IF kind = "ZodBoolean" THEN Bool(FALSE)
  ELSE IF kind = "ZodArray" THEN Arr(<<>>)
  ELSE IF includes(toLowerCase(key), C_thinking) \/ includes(toLowerCase(key), C_comment)
  THEN Str(C_Processing)
  ELSE Str(C_GeneratedContent)

\* the assembled value is the placeholder for the field's name and kind
IsPlaceholder(value, key, kind) ==
  IF EchoField(key, kind) THEN IsStr(value) /\ value.v # <<>>
  ELSE value = PlaceholderOf(key, kind)

\* C15: a field for which the decoded generation reply holds no value, by
\* direct key, under a response wrapper or under the first key, is assembled
\* as the synthesizer's placeholder for its name and kind; assembling a text
\* reply does not raise.
C15_UnresolvedFieldGetsPlaceholder ==
  GenerationReplied =>
    /\ assembled # None
    /\ \A i \in 1..Len(config.outputFormat.shape) :
         NoValueFor(xmlToObj(lastReply.response), config.outputFormat.shape[i].k)
           => IsPlaceholder(GetKey(assembled.v, config.outputFormat.shape[i].k),
                            config.outputFormat.shape[i].k,
                            getSchemaTypeName(config.outputFormat.shape[i].s))

\* the reply without tags assembled for the schema with the single field
\* answer
C15_Witness ==
  /\ lastReply = Reply("response_generation", Str(V_prose))
  /\ config.outputFormat = F_answer
  /\ assembled = Obj(<<Entry(K_answer, Str(C_GeneratedContent))>>)


\* a decoded result: a string, or an object whose values are strings,
\* numbers, booleans or such objects
RECURSIVE IsTree(_)
IsTree(x) ==
  \/ x.t \in {"str", "num", "bool"}
  \/ x.t = "obj" /\ \A i \in 1..Len(x.v) : IsTree(x.v[i].v)

\* C16: for every text (empty, prose, unbalanced or unclosed tags, nested
\* tags) xmlToObj returns a result and does not raise.
C16_DecodeIsTotal ==
  decoded # NoDecode =>
    /\ decoded.output.t # "threw"
    /\ IsStr(decoded.output) \/ IsObj(decoded.output)
    /\ IsTree(decoded.output)

\* an unclosed outer tag around a closed one, decoded to the inner element
C16_Witness ==
  /\ decoded # NoDecode
  /\ decoded.input = Str(<<"<", "a", ">", "<", "b", ">", "x", "<", "/", "b", ">">>)
  /\ decoded.output = Obj(<<Entry(<<"b">>, Str(<<"x">>))>>)


(***************************************************************************)
(* Properties of the order of progress updates and external calls          *)
(***************************************************************************)

\* the positions of the trace holding an update, or a call, of a stage
EventsAt(stage) ==
  {i \in 1..Len(trace) : trace[i].what = "event" /\ trace[i].item.stage = stage}
CallsAt(stage) ==
  {i \in 1..Len(trace) : trace[i].what = "call" /\ trace[i].item.stage = stage}

\* the rank of a stage in the pipeline
StageRank(stage) ==
  CASE stage = "server_selection" -> 1
    [] stage = "tool_discovery" -> 2
    [] stage = "tool_invocation" -> 3
    [] stage = "response_generation" -> 4

\* a run of an agent with servers has resolved
ResolvedWithServers ==
  pc = "done" /\ outcome.status = "resolved" /\ Len(config.servers) > 0

\* the server_selection updates around the server-selection request
SelectionAnnounced ==
  /\ EventsAt("server_selection") = {1, 3}
  /\ CallsAt("server_selection") = {2}
  /\ trace[3].item.data = Arr(relevantServers)

\* one tool_discovery update, right before the first discovery call
DiscoveryAnnounced ==
  IF CallsAt("tool_discovery") = {}
  THEN EventsAt("tool_discovery") = {}
  ELSE /\ EventsAt("tool_discovery") = {4}
       /\ \A p \in CallsAt("tool_discovery") : p >= 5
       /\ 5 \in CallsAt("tool_discovery")

\* one tool_invocation update per selected tool, right before its parameter
\* generation, which precedes its invocation
InvocationsAnnounced ==
  /\ \A p \in CallsAt("parameter_generation") : p - 1 \in EventsAt("tool_invocation")
  /\ \A e \in EventsAt("tool_invocation") : e + 1 \in CallsAt("parameter_generation")
  /\ \A p \in CallsAt("tool_invocation") :
       /\ p - 1 \in CallsAt("parameter_generation")
       /\ trace[p - 2].item.data =
            Str(ResultKey(trace[p].item.server, trace[p].item.tool))

\* one response_generation update, right before the generation request,
\* which is the last call
GenerationAnnounced ==
  /\ EventsAt("response_generation") = {Len(trace) - 1}
  /\ CallsAt("response_generation") = {Len(trace)}

\* the updates follow the order of the stages
InStageOrder(es) ==
  \A i \in 1..Len(es) : \A j \in i..Len(es) :
    StageRank(es[i].stage) <= StageRank(es[j].stage)
EventsInStageOrder == InStageOrder(events)

\* C17: in a resolved run of an agent with servers the progress updates come
\* in pipeline order: server_selection before and after the selection
\* request, tool_discovery before the first discovery call, tool_invocation
\* before each selected tool's parameter generation and invocation,
\* response_generation before the generation request.
C17_ProgressFollowsPipeline ==
  ResolvedWithServers =>
    /\ SelectionAnnounced
    /\ DiscoveryAnnounced
    /\ InvocationsAnnounced
    /\ GenerationAnnounced
    /\ EventsInStageOrder

\* a resolved run that discovered two servers and invoked a tool
C17_Witness ==
  /\ ResolvedWithServers
  /\ Cardinality(CallsAt("tool_discovery")) = 2
  /\ Cardinality(EventsAt("tool_invocation")) >= 1
  /\ CallsAt("tool_invocation") # {}


\* the external calls issued and not settled yet
Outstanding == Len(calls) - settled

\* the positions in a sequence of calls of the tool invocations
InvocationsIn(cs) == {i \in 1..Len(cs) : cs[i].kind = "invokeTool"}
Invocations == InvocationsIn(calls)

\* the position of an element in a sequence without repetitions
PosIn(seq, x) == CHOOSE k \in 1..Len(seq) : seq[k] = x

\* the invocations follow the order of the selected servers
ServerOrdered(cs, invocations) ==
  \A i \in invocations : \A j \in invocations :
    i < j => /\ \E k \in 1..Len(relevantServers) : relevantServers[k] = cs[i].server
             /\ \E k \in 1..Len(relevantServers) : relevantServers[k] = cs[j].server
             /\ PosIn(relevantServers, cs[i].server)
                  <= PosIn(relevantServers, cs[j].server)
InvocationsInServerOrder == ServerOrdered(calls, InvocationsIn(calls))

\* while a tool of the current server is invoked, the invocations of that
\* server so far follow the order of its selected tools
ToolOrdered(cs, invocations) ==
  pc = "invokeTool" =>
    /\ cs[Len(cs)] = InvokeCall(relevantServers[serverIdx], relevantTools[toolIdx],
                                cs[Len(cs)].parameters)
    /\ \A i \in invocations : \A j \in invocations :
         (i < j /\ cs[i].server = relevantServers[serverIdx]
                /\ cs[j].server = relevantServers[serverIdx])
           => PosIn(relevantTools, cs[i].tool) < PosIn(relevantTools, cs[j].tool)
InvocationsInToolOrder == ToolOrdered(calls, InvocationsIn(calls))

\* no call, or one, is outstanding, and one exactly while the run is suspended
OneAtATime(outstanding) ==
  /\ outstanding \in {0, 1}
  /\ outstanding = 1 <=> pc \notin {"idle", "done"}

InSelectionOrder(cs, invocations) ==
  /\ ServerOrdered(cs, invocations)
  /\ ToolOrdered(cs, invocations)

OneAtATimeInOrder(cs) ==
  /\ OneAtATime(Len(cs) - settled)
  /\ InSelectionOrder(cs, InvocationsIn(cs))

\* C18: at most one external call of a run is outstanding at any time, and
\* the tool invocations are issued in the order of the server selection and,
\* within a server, of the tool selection.
C18_OneCallAtATimeInSelectionOrder == OneAtATimeInOrder(calls)

\* the tool of the second selected server is invoked after the tool of the
\* first
C18_Witness ==
  /\ pc = "invokeTool"
  /\ Outstanding = 1
  /\ Cardinality(Invocations) = 2
  /\ serverIdx = 2


(***************************************************************************)
(* Two calls of run on one agent.  The variables of run (lines 361-436)    *)
(* are locals of the call, so each call has its own; the agent's fields    *)
(* (this.config, line 354) are shared.  A call gives way to the other one  *)
(* only where it awaits an external call.                                  *)
(***************************************************************************)

\* the local variables of the call that is being followed
Locals ==
  [pc |-> pc, rawInput |-> rawInput, validatedInput |-> validatedInput,
   relevantServers |-> relevantServers, serverIdx |-> serverIdx, tools |-> tools,
   relevantTools |-> relevantTools, toolIdx |-> toolIdx, toolResults |-> toolResults,
   discovered |-> discovered, returned |-> returned, trace |-> trace, settled |-> settled,
   lastReply |-> lastReply, assembled |-> assembled, usedFallback |-> usedFallback,
   outcome |-> outcome]

\* two calls that keep their results in one mapping of the agent
SwitchSharingResults ==
  /\ agent = "constructed"
  /\ pc # "idle"
  /\ frame' = Locals
  /\ pc' = frame.pc
  /\ rawInput' = frame.rawInput
  /\ validatedInput' = frame.validatedInput
  /\ relevantServers' = frame.relevantServers
  /\ serverIdx' = frame.serverIdx
  /\ tools' = frame.tools
  /\ relevantTools' = frame.relevantTools
  /\ toolIdx' = frame.toolIdx
  /\ discovered' = frame.discovered
  /\ returned' = frame.returned
  /\ trace' = frame.trace
  /\ settled' = frame.settled
  /\ lastReply' = frame.lastReply
  /\ assembled' = frame.assembled
  /\ usedFallback' = frame.usedFallback
  /\ outcome' = frame.outcome
  /\ UNCHANGED <<computed, measured, agent, config, decoded, toolResults>>

\* the call that is being followed is suspended on an external call (or has
\* settled) and the other call goes on: the two exchange places
Switch ==
  /\ agent = "constructed"
  /\ pc # "idle"
  /\ frame' = Locals
  /\ pc' = frame.pc
  /\ rawInput' = frame.rawInput
  /\ validatedInput' = frame.validatedInput
  /\ relevantServers' = frame.relevantServers
  /\ serverIdx' = frame.serverIdx
  /\ tools' = frame.tools
  /\ relevantTools' = frame.relevantTools
  /\ toolIdx' = frame.toolIdx
  /\ toolResults' = frame.toolResults
  /\ discovered' = frame.discovered
  /\ returned' = frame.returned
  /\ trace' = frame.trace
  /\ settled' = frame.settled
  /\ lastReply' = frame.lastReply
  /\ assembled' = frame.assembled
  /\ usedFallback' = frame.usedFallback
  /\ outcome' = frame.outcome
  /\ UNCHANGED <<computed, measured, agent, config, decoded>>

\* the agent and the replies of the two-call model: two servers with at most
\* one tool each; a reply names one server or one tool, or it is the null
\* server selection, which selects both servers
TwoRunsConfig == AgentConfig(SubSeq(ServerPool, 1, 2), F_chat)
TwoRunsTexts ==
  {Tag(C_relevant_servers, Tag(C_server_names, N_weather)),
   Tag(C_relevant_servers, Tag(C_server_names, N_calc)),
   Tag(C_selected_tools, Tag(C_tool_names, N_forecast)),
   Tag(C_parameters, Tag(K_city, V_Oslo)),
   Tag(C_response, V_degrees) \o Tag(K_count, V_42) \o Tag(K_done, C_true),
   Tag(C_response, C_true) \o Tag(K_count, V_many)}
InTwoRunsScope ==
  /\ agent = "constructed" => config = TwoRunsConfig
  /\ (lastReply.response.t = "str" /\ lastReply.stage # "tool_discovery")
       => lastReply.response.v \in TwoRunsTexts
  /\ lastReply.response.t = "null" => lastReply.stage = "server_selection"
  /\ Len(tools) <= 1

NextTwoRuns ==
  \/ Switch
  \/ Construct /\ InTwoRunsScope'
  \/ Run /\ InTwoRunsScope'
  \/ ServerSelectionReturns /\ InTwoRunsScope'
  \/ SelectionFails /\ InTwoRunsScope'
  \/ DiscoveryReturns /\ InTwoRunsScope'
  \/ ToolSelectionReturns /\ InTwoRunsScope'
  \/ ParametersReturn /\ InTwoRunsScope'
  \/ ToolFails /\ InTwoRunsScope'
  \/ InvokeReturns /\ InTwoRunsScope'
  \/ GenerationReturns /\ InTwoRunsScope'
  \/ GenerationFails /\ InTwoRunsScope'

SpecTwoRuns == Init /\ [][NextTwoRuns]_vars


\* every key of a call's tool-result mapping is the key of an invocation that
\* this call issued
OwnResultsOnly(results, tr) ==
  \A i \in 1..Len(results) :
    \E j \in 1..Len(ItemsOf(tr, "call")) :
      /\ ItemsOf(tr, "call")[j].kind = "invokeTool"
      /\ results[i].k = ResultKey(ItemsOf(tr, "call")[j].server, ItemsOf(tr, "call")[j].tool)

\* C19: when two calls of run on one agent interleave at their external
\* calls, the tool-result mapping of each holds only results of its own
\* invocations, a step of one call leaves the locals of the other as they
\* are, and no step changes the configuration the constructor stored.
C19_InterleavedRunsShareNothing ==
  /\ [](/\ OwnResultsOnly(toolResults, trace)
        /\ OwnResultsOnly(frame.toolResults, frame.trace))
  /\ [][/\ frame' = frame \/ frame' = Locals
        /\ agent = "constructed" => config' = config]_vars

\* both calls are under way; the suspended one has the result of a tool of one
\* server, the other one is invoking a tool of the other server
C19_Witness ==
  /\ pc = "invokeTool"
  /\ frame.pc = "generateResponse"
  /\ Len(frame.toolResults) = 1
  /\ toolResults = <<>>
  /\ frame.toolResults[1].k # ResultKey(relevantServers[serverIdx], relevantTools[toolIdx])


(***************************************************************************)
(* measure, src/uai.ts:10-47, on its own: an operation run in a scope may  *)
(* open nested scopes through the function it is handed (lines 24-30),     *)
(* and settles by returning a value or by raising an error                 *)
(***************************************************************************)
MaxDepth == 3
MaxCalls == 4

MeasureActions == {"Agent.run", "Generate response"}
OperationValues == {Str(V_42), Undefined}
OperationErrors == {"LLM API error", "ZodError"}
Settlements == {Returned(x) : x \in OperationValues} \cup {Raised(e) : e \in OperationErrors}

\* line 17
Indent(level) == IF level > 0 THEN level + 1 ELSE 0
\* the lines written by lines 23, 32 and 36-45
LogLine(mark, action, level, requestId) ==
  [mark |-> mark, action |-> action, indent |-> Indent(level), requestId |-> requestId]

\* the third argument of measure: {} by default (line 13), {requestId} as run
\* passes it (lines 361, 459); an absent requestId is "none"
Context(requestId, level) == [requestId |-> requestId, level |-> level]
RootContexts == {Context("none", 0), Context("r1", 0)}

\* a nested scope that starts over at the outermost level without requestId
NestedContextFresh(scope) == Context("none", 0)

\* the context the function handed to the operation passes on: lines 25-29
NestedContext(scope) == Context(scope.requestId, scope.level + 1)

\* a scope that answers undefined when its operation raised
measureSwallowing(operation) ==
  IF operation.status = "raised" THEN Returned(Undefined) ELSE operation

\* how the promise of measure settles for the way its operation settled:
\* return result (line 33), throw error (line 46)
measureSettles(operation) == operation

\* measure is called, by the program (context = {}: level 0) or by the
\* operation of the innermost open scope (level + 1, line 27): lines 15-23
MeasureCalled ==
  /\ measured.calls < MaxCalls
  /\ Len(measured.scopes) < MaxDepth
  /\ \E action \in MeasureActions :
     \E context \in IF measured.scopes = <<>> THEN RootContexts
                     ELSE {NestedContext(measured.scopes[Len(measured.scopes)])} :
       measured' =
         [measured EXCEPT
            !.calls = @ + 1,
            !.scopes = Append(@, [action |-> action, level |-> context.level,
                                  requestId |-> context.requestId]),
            !.log = Append(@, LogLine(">", action, context.level, context.requestId))]
  /\ UNCHANGED <<computed, returned, frame, settled, decoded, discovered, agent, config, pc, rawInput,
                 validatedInput, relevantServers, serverIdx, tools, relevantTools,
                 toolIdx, toolResults, trace, lastReply, assembled, usedFallback,
                 outcome>>

\* the operation of the innermost open scope settles: lines 31-33 when it
\* returned, the catch block of lines 34-46 when it raised
OperationSettles ==
  /\ measured.scopes # <<>>
  /\ \E operation \in Settlements :
       measured' =
         [measured EXCEPT
            !.scopes = SubSeq(@, 1, Len(@) - 1),
            !.log = Append(@, LogLine(IF operation.status = "raised" THEN "x" ELSE "ok",
                                      measured.scopes[Len(measured.scopes)].action,
                                      measured.scopes[Len(measured.scopes)].level,
                                      measured.scopes[Len(measured.scopes)].requestId)),
            !.operation = operation,
            !.scope = measureSettles(operation)]
  /\ UNCHANGED <<computed, returned, frame, settled, decoded, discovered, agent, config, pc, rawInput,
                 validatedInput, relevantServers, serverIdx, tools, relevantTools,
                 toolIdx, toolResults, trace, lastReply, assembled, usedFallback,
                 outcome>>

NextMeasure == MeasureCalled \/ OperationSettles

SpecMeasure == Init /\ [][NextMeasure]_vars

\* the last line of the log
LastLogged == measured.log[Len(measured.log)]

\* the mark of the line logged when the last scope settled
LastClosingMark ==
  measured.log[CHOOSE i \in 1..Len(measured.log) :
                 /\ measured.log[i].mark # ">"
                 /\ \A j \in (i + 1)..Len(measured.log) : measured.log[j].mark = ">"].mark

\* C20: at every nesting depth a scope of measure settles as its operation
\* did: when the operation raised, the scope logs the failure and raises the
\* same error; when it returned, the scope returns the same value; a scope
\* never returns when its operation raised.
C20_ScopeSettlesAsItsOperation ==
  /\ measured.operation.status = "raised" =>
       /\ measured.scope.status = "raised"
       /\ LastClosingMark = "x"
       /\ measured.scope.error = measured.operation.error
  /\ measured.operation.status = "returned" =>
       /\ measured.scope.status = "returned"
       /\ measured.scope.value = measured.operation.value
  /\ measured.scope.status = "returned" => measured.operation.status = "returned"
  /\ measured.operation.status = "none" => measured.scope.status = "none"

\* a scope two levels below the outermost one has just failed, with its
\* failure logged, while the scopes around it are still open
C20_Witness ==
  /\ Len(measured.scopes) = 2
  /\ measured.operation.status = "raised"
  /\ measured.scope = Raised("ZodError")
  /\ LastLogged = LogLine("x", "Generate response", 2, "r1")


(***************************************************************************)
(* Streaming updates.  ProgressUpdate (src/uai.ts:90-94) has the four      *)
(* pipeline stages only, and run passes nothing else to progressCallback   *)
(* (lines 372, 381, 392, 407, 431).                                        *)
(***************************************************************************)

\* the positions in events of the streaming updates for a field
StreamingEventsOf(field) ==
  {i \in 1..Len(events) : events[i].stage = "streaming" /\ events[i].data.field = field}

\* the entries of the resolved object that hold text
ResolvedTextFields ==
  {i \in 1..Len(outcome.value.v) : IsStr(outcome.value.v[i].v)}

\* the streamed values of a field never shrink, and the last one is the value
\* the run resolved with, up to surrounding whitespace
StreamedUpTo(field, value) ==
  /\ StreamingEventsOf(field) # {}
  /\ \A i \in StreamingEventsOf(field) : \A j \in StreamingEventsOf(field) :
       i < j => Len(events[i].data.value) <= Len(events[j].data.value)
  /\ trim(events[Max(StreamingEventsOf(field))].data.value) = trim(value)

\* C21: for each output field the values of the successive streaming events
\* do not decrease in length, and the value of the last one is, up to
\* surrounding whitespace, the value of the field in the object run resolves
\* with.
C21_StreamedValuesGrowToResult ==
  outcome.status = "resolved" =>
    \A i \in ResolvedTextFields :
      StreamedUpTo(outcome.value.v[i].k, outcome.value.v[i].v.v)

\* a run resolved with the text it was given for its field, and no streaming
\* update was passed to the callback
C21_Witness ==
  /\ outcome.status = "resolved"
  /\ ~ usedFallback
  /\ config.outputFormat = F_answer
  /\ outcome.value = Obj(<<Entry(K_answer, Str(V_degrees))>>)
  /\ StreamingEventsOf(K_answer) = {}

\* C22: a run that resolves has emitted at least one streaming event, and
\* more than one for each top-level output field that holds text.
C22_ResolvedRunHasStreamed ==
  outcome.status = "resolved" =>
    /\ \E i \in 1..Len(events) : events[i].stage = "streaming"
    /\ \A i \in ResolvedTextFields :
         Cardinality(StreamingEventsOf(outcome.value.v[i].k)) > 1

\* a run with servers resolved after its four stages, and every update it
\* passed to the callback belongs to one of them
C22_Witness ==
  /\ outcome.status = "resolved"
  /\ Len(relevantServers) > 0
  /\ Len(events) > 3
  /\ \A i \in 1..Len(events) :
       events[i].stage \in {"server_selection", "tool_discovery", "tool_invocation",
                            "response_generation"}


\* a reply that names two candidates, one item tag per name, under the
\* expected keys
ItemListReply(outer, inner, first, second) ==
  Str(Tag(outer, Tag(inner, Tag(K_item, first) \o Tag(K_item, second))))

\* the candidates whose name is one of the two, in candidate order
RECURSIVE CandidatesNamed(_, _)
CandidatesNamed(candidates, names) ==
  IF candidates = <<>> THEN <<>>
  ELSE IF Head(candidates) \in names
       THEN <<Head(candidates)>> \o CandidatesNamed(Tail(candidates), names)
       ELSE CandidatesNamed(Tail(candidates), names)

\* C23: after a selection reply that carries a list of names under the
\* expected key, one item tag per name, the selection is exactly the
\* candidates named in the list, in candidate order: for the servers and for
\* the tools.
C23_ItemListSelectsNamedCandidates ==
  /\ lastReply = Reply("server_selection",
                       ItemListReply(C_relevant_servers, C_server_names, N_weather, N_calc))
       => relevantServers = CandidatesNamed(config.servers, {N_weather, N_calc})
  /\ lastReply = Reply("tool_selection",
                       ItemListReply(C_selected_tools, C_tool_names, N_forecast, N_add))
       => relevantTools = CandidatesNamed(tools, {N_forecast, N_add})

\* the reply lists both configured servers and no server is selected
C23_Witness ==
  /\ lastReply = Reply("server_selection",
                       ItemListReply(C_relevant_servers, C_server_names, N_weather, N_calc))
  /\ config.servers = <<N_weather, N_calc>>
  /\ relevantServers = <<>>
  /\ xmlToObj(lastReply.response)
       = Obj(<<Entry(C_relevant_servers,
                     Obj(<<Entry(C_server_names, Obj(<<Entry(K_item, Str(N_calc))>>))>>))>>)


\* the positions in a sequence of calls of the discovery calls
DiscoveriesIn(cs) == {i \in 1..Len(cs) : cs[i].kind = "discoverTools"}

\* the positions in a sequence of calls of the tool work: tool selection,
\* parameter generation, invocation
ToolWorkIn(cs) ==
  {i \in 1..Len(cs) :
     cs[i].stage \in {"tool_selection", "parameter_generation", "tool_invocation"}}

\* no discovery call after a piece of tool work
DiscoveryFirst(discoveries, toolWork) ==
  \A i \in toolWork : \A j \in discoveries : j < i

\* C24 as stated: once a tool-selection request, a parameter-generation
\* request or an invocation has been issued, no discovery call is issued.
C24_DiscoveryEndsBeforeToolWork ==
  DiscoveryFirst(DiscoveriesIn(calls), ToolWorkIn(calls))

\* the k-th discovery call is for the k-th selected server
DiscoveriesInServerOrder(cs, discoveries) ==
  /\ Cardinality(discoveries) <= Len(relevantServers)
  /\ \A i \in discoveries :
       cs[i].server = relevantServers[Cardinality({j \in discoveries : j <= i})]

\* every piece of tool work follows a discovery call, and an invocation is for
\* the server of the discovery call issued last before it
ToolWorkFollowsItsDiscovery(cs, discoveries, toolWork) ==
  \A i \in toolWork :
    /\ \E j \in discoveries : j < i
    /\ cs[i].kind = "invokeTool" =>
         cs[i].server = cs[Max({j \in discoveries : j < i})].server

PerServer(cs, discoveries, toolWork) ==
  /\ DiscoveriesInServerOrder(cs, discoveries)
  /\ ToolWorkFollowsItsDiscovery(cs, discoveries, toolWork)

PerServerIn(cs) == PerServer(cs, DiscoveriesIn(cs), ToolWorkIn(cs))

\* C24 as amended: discovery and tool work alternate server by server. The
\* selected servers are discovered once each, in selection order; the tool
\* work of a server is issued after that server's discovery and before the
\* discovery of the next server; no call goes back to an earlier server.
C24_DiscoveryAndToolWorkPerServer == PerServerIn(calls)

\* the invocations in a sequence of calls that are for a server
InvokedOn(cs, server) ==
  {i \in 1..Len(cs) : cs[i].kind = "invokeTool" /\ cs[i].server = server}

\* the second server is being discovered after a tool of the first one was
\* invoked
C24_Witness ==
  /\ pc = "discoverTools"
  /\ serverIdx = 2
  /\ InvokedOn(calls, relevantServers[1]) # {}
  /\ calls[Len(calls)] = DiscoverCall(relevantServers[2])


\* the generation request has been issued
GenerationIssued == pc = "generateResponse" \/ (pc = "done" /\ usedFallback) \/ assembled # None

\* a trace entry of the stages before generation: a call of server
\* selection, discovery, tool selection, parameter generation or invocation,
\* or an update of server_selection, tool_discovery or tool_invocation
BeforeGeneration(entry) == entry.item.stage # "response_generation"

\* C25: once the generation request has been issued the run issues no call
\* and emits no update of an earlier stage, and the tool-result mapping stays
\* as it was when the generation prompt was built.
C25_NothingButGenerationAfterItsRequest ==
  [][GenerationIssued =>
       /\ toolResults' = toolResults
       /\ Len(trace') >= Len(trace)
       /\ \A q \in (Len(trace) + 1)..Len(trace') : ~ BeforeGeneration(trace'[q])]_vars

\* the generation request was issued after a tool returned its result, and
\* the run resolved with the result mapping still holding that result
C25_Witness ==
  /\ pc = "done"
  /\ outcome.status = "resolved"
  /\ Len(toolResults) = 1
  /\ trace[Len(trace)] = Issued(LLMCall("response_generation", GenerationTemperature))
  /\ InvocationsIn(calls) # {}


(***************************************************************************)
(* Output assembly on its own: an agent without servers, whose run goes    *)
(* from input validation straight to the generation request, and replies   *)
(* built from at most MaxParts parts                                       *)
(***************************************************************************)
MaxParts == 3

\* the answer at the top level, under a response wrapper, under another key,
\* and a key that holds no subtree
AssemblyParts ==
  {Tag(K_answer, V_degrees),
   Tag(C_response, Tag(K_answer, V_sunny)),
   Tag(K_result, Tag(K_answer, V_prose)),
   Tag(K_count, V_42)}

RECURSIVE PartsTexts(_)
PartsTexts(n) ==
  IF n = 0 THEN {<<>>}
  ELSE PartsTexts(n - 1) \cup {p \o t : p \in AssemblyParts, t \in PartsTexts(n - 1)}

AssemblyReplies == {Str(t) : t \in PartsTexts(MaxParts)}

\* the agents of the assembly model
InAssemblyScope ==
  /\ config.servers = <<>>
  /\ config.outputFormat \in {F_answer, F_chat}

NextAssemble ==
  \/ Construct /\ InAssemblyScope'
  \/ Run
  \/ GenerationReturnsFrom(AssemblyReplies)
  \/ GenerationFails

SpecAssemble == Init /\ [][NextAssemble]_vars


\* the value assembled for a field is the first available of: the key at the
\* top level of the decoded tree, the key under a top-level response, the key
\* under the first top-level key, the synthesized placeholder
FirstAvailable(value, key, kind, top, underResponse, underFirstKey) ==
  IF ~ IsUndef(top) THEN value = top
  ELSE IF ~ IsUndef(underResponse) THEN value = underResponse
  ELSE IF ~ IsUndef(underFirstKey) THEN value = underFirstKey
  ELSE IsPlaceholder(value, key, kind)

TakenByCascade(parsed, key, kind, value) ==
  FirstAvailable(value, key, kind, Index(parsed, key),
                 Index(Index(parsed, C_response), key),
                 Index(FirstKeyValue(parsed), key))

AssembledByCascade(parsed, shape, object) ==
  \A i \in 1..Len(shape) :
    TakenByCascade(parsed, shape[i].k, getSchemaTypeName(shape[i].s),
                   GetKey(object.v, shape[i].k))

\* C26: each field of the assembled object is the first available of (a) the
\* field's key at the top level of the decoded reply, (b) the key under a
\* top-level response, (c) the key under the first top-level key, (d) the
\* synthesized fallback; so a top-level value wins over a nested one and a
\* value under response wins over one under another first key.
C26_AssemblyTakesFirstAvailable ==
  GenerationReplied =>
    /\ assembled # None
    /\ AssembledByCascade(xmlToObj(lastReply.response), config.outputFormat.shape, assembled)

\* the reply holds the answer under a first key result and under response:
\* the one under response was taken
C26_Witness ==
  /\ lastReply = Reply("response_generation",
                       Str(Tag(K_result, Tag(K_answer, V_prose))
                             \o Tag(C_response, Tag(K_answer, V_sunny))))
  /\ config.outputFormat = F_answer
  /\ assembled = Obj(<<Entry(K_answer, Str(V_sunny))>>)


\* the strings of more than MinFoundLength characters in a decoded tree, at
\* any depth, in document order
RECURSIVE LongStringsIn(_)
RECURSIVE LongStringsInEntries(_)
LongStringsIn(x) ==
  IF IsStr(x) THEN (IF Len(x.v) > MinFoundLength THEN <<x>> ELSE <<>>)
  ELSE IF IsObj(x) THEN LongStringsInEntries(x.v)
  ELSE <<>>
LongStringsInEntries(es) ==
  IF es = <<>> THEN <<>>
  ELSE LongStringsIn(Head(es).v) \o LongStringsInEntries(Tail(es))

\* the first long string of the tree; without one the first RawPrefixLength
\* characters of the reply; for an empty reply the fixed placeholder
EchoOf(longStrings, raw) ==
  IF longStrings # <<>> THEN longStrings[1]
  ELSE IF raw # <<>> THEN Str(substring0(raw, RawPrefixLength))
  ELSE Str(C_ResponseGenerated)

EchoFieldsFilled(parsed, raw, shape, object) ==
  \A i \in 1..Len(shape) :
    (EchoField(shape[i].k, getSchemaTypeName(shape[i].s)) /\ NoValueFor(parsed, shape[i].k))
      => GetKey(object.v, shape[i].k) = EchoOf(LongStringsIn(parsed), raw)

\* C27: an unresolved string field named after a response or a message is
\* given the first string of more than 10 characters found anywhere in the
\* decoded reply, at any depth; failing that the first 200 characters of the
\* raw reply; failing that a fixed placeholder.
C27_EchoFieldTakesFirstLongString ==
  (GenerationReplied /\ assembled # None) =>
    EchoFieldsFilled(xmlToObj(lastReply.response), lastReply.response.v,
                     config.outputFormat.shape, assembled)

\* the only long string of the reply lies one level down, and the field
\* response was given the raw reply, tags included
C27_Witness ==
  /\ lastReply = Reply("response_generation", Str(Tag(K_result, Tag(K_answer, V_prose))))
  /\ config.outputFormat = F_chat
  /\ LongStringsIn(xmlToObj(lastReply.response)) = <<Str(V_prose)>>
  /\ GetKey(assembled.v, C_response) = Str(Tag(K_result, Tag(K_answer, V_prose)))


\* a call of run that resolved with the wholesale fallback object
ResolvedByFallback(run) == run.usedFallback /\ run.outcome.status = "resolved"

\* the two calls differ in a reply or in their tool results
RepliesDiffer(one, other) ==
  \/ one.lastReply.response.t # other.lastReply.response.t
  \/ Len(one.toolResults) # Len(other.toolResults)
  \/ one.relevantServers # other.relevantServers

\* C28: two calls of run on one agent with the same input that both resolve
\* with the wholesale fallback resolve with identical objects, whatever the
\* completion replies and the tool results of each were.
C28_FallbackIgnoresRepliesAndResults ==
  (/\ ResolvedByFallback(Locals)
   /\ ResolvedByFallback(frame)
   /\ validatedInput = frame.validatedInput)
    => outcome.value = frame.outcome.value

\* one call fell back after a failed generation request and with a tool
\* result, the other after a reply of the wrong kind and without any
C28_Witness ==
  /\ ResolvedByFallback(Locals)
  /\ ResolvedByFallback(frame)
  /\ validatedInput = frame.validatedInput
  /\ lastReply = Reply("response_generation", Threw)
  /\ frame.lastReply.response.t = "str"
  /\ Len(toolResults) = 1
  /\ frame.toolResults = <<>>
  /\ RepliesDiffer(Locals, frame)


\* ---------------------------------------------------------------------------
\* The tool-result mapping when the generation prompt is built (lines 389-427)
\* ---------------------------------------------------------------------------

\* the positions in rets of the invocations stored under key
ReturnsOf(rets, key) == {j \in 1..Len(rets) : rets[j].key = key}

\* the latest of a non-empty set of positions
Latest(positions) == CHOOSE j \in positions : \A other \in positions : other <= j

\* every key of results belongs to an invocation that returned, and every
\* invocation that returned has its key, bound to the latest result under it
ResultsAreReturns(results, rets) ==
  /\ \A i \in 1..Len(results) : ReturnsOf(rets, results[i].k) # {}
  /\ \A j \in 1..Len(rets) :
       /\ HasKey(results, rets[j].key)
       /\ GetKey(results, rets[j].key) = rets[Latest(ReturnsOf(rets, rets[j].key))].result

\* the keys of the invocations issued at the positions given
KeysInvoked(cs, invocations) ==
  {ResultKey(cs[i].server, cs[i].tool) : i \in invocations}

\* C29: when the generation prompt is built, the tool-result mapping has the
\* key server.tool exactly when an invocation of that tool on that server has
\* returned during this run, bound to the result of the latest such
\* invocation; a tool whose parameter generation or invocation failed has no key
C29_ResultsAreTheReturnedInvocations ==
  pc = "generateResponse" => ResultsAreReturns(toolResults, returned)

\* the prompt is built after one invocation returned and a later tool failed
C29_Witness ==
  /\ pc = "generateResponse"
  /\ Len(returned) = 1
  /\ HasKey(toolResults, returned[1].key)
  /\ lastReply = Reply("tool_invocation", Threw)
  /\ \E failed \in KeysInvoked(calls, InvocationsIn(calls)) : ~HasKey(toolResults, failed)


\* ---------------------------------------------------------------------------
\* A run of an agent without servers (lines 369-440)
\* ---------------------------------------------------------------------------

\* run was called with an input that passed validation
ValidRunStarted ==
  /\ pc # "idle"
  /\ ValidateInput(config.inputFormat, rawInput).ok

\* C30: a run with valid input of an agent without servers issues no
\* selection request, no discovery call and no invocation call, exactly one
\* completion request, the generation request, and emits exactly one progress
\* event, of stage response_generation
C30_NoServersOnlyGeneration ==
  (ValidRunStarted /\ Len(config.servers) = 0) =>
    /\ Len(calls) = 1
    /\ calls[1].kind = "callLLM"
    /\ calls[1].stage = "response_generation"
    /\ Len(events) = 1
    /\ events[1].stage = "response_generation"

\* a run of an agent without servers has resolved
C30_Witness ==
  /\ ValidRunStarted
  /\ Len(config.servers) = 0
  /\ pc = "done"
  /\ outcome.status = "resolved"
  /\ Len(calls) = 1


\* ---------------------------------------------------------------------------
\* Parameter generation whose reply holds no parameters (lines 635-645, 412-423)
\* ---------------------------------------------------------------------------

\* the reply is not text, or text without tags, or tags without `parameters`
NoParametersIn(response) ==
  \/ ~ IsStr(response)
  \/ ~ IsObj(xmlToObj(response))
  \/ ~ HasKey(xmlToObj(response).v, C_parameters)

\* the parameter-generation request of the current tool has returned
ParametersGenerated ==
  /\ lastReply.stage = "parameter_generation"
  /\ lastReply.response # Threw

\* the call issued last
LastCall(cs) == cs[Len(cs)]

\* C31: when the parameter-generation request returned, the tool is invoked,
\* and with the empty object when the reply holds no `parameters` value; the
\* tool is left out only when the request itself failed
C31_UndecodableParametersInvokeWithEmptyObject ==
  /\ ParametersGenerated =>
       /\ pc = "invokeTool"
       /\ LastCall(calls).kind = "invokeTool"
       /\ LastCall(calls).server = relevantServers[serverIdx]
       /\ LastCall(calls).tool = relevantTools[toolIdx]
       /\ NoParametersIn(lastReply.response) => LastCall(calls).parameters = Obj(<<>>)
  /\ (lastReply.stage = "parameter_generation" /\ pc # "invokeTool") =>
       lastReply.response = Threw

\* a tool is being invoked with the empty object after a reply of tags that
\* do not include `parameters`
C31_Witness ==
  /\ ParametersGenerated
  /\ lastReply.response = Str(Tag(K_city, V_Oslo))
  /\ pc = "invokeTool"
  /\ LastCall(calls).parameters = Obj(<<>>)


(***************************************************************************)
(* objToXml, src/uai.ts:99-137                                             *)
(***************************************************************************)
Letters == Lower \cup Upper
WordChars == Letters \cup Digits \cup {"_"}

\* name.replace(/[^a-zA-Z0-9_]/g, "_")
ReplaceUnsafe(name) ==
  [i \in 1..Len(name) |-> IF name[i] \in WordChars THEN name[i] ELSE "_"]

\* .replace(/^[^a-zA-Z]/, "tag_$&"): an empty name has no first character
PrefixNonLetter(name) ==
  IF name # <<>> /\ name[1] \notin Letters
  THEN <<"t", "a", "g", "_">> \o name
  ELSE name

\* lines 100-102
sanitizeTagName(name) == PrefixNonLetter(ReplaceUnsafe(name))

\* lines 104-107
wrapTag(tag, content) == Tag(sanitizeTagName(tag), content)

\* String(value) of a value that is not an object
String(value) ==
  CASE value.t = "str"   -> value.v
    [] value.t = "bool"  -> IF value.v THEN <<"t", "r", "u", "e">>
                            ELSE <<"f", "a", "l", "s", "e">>
    [] value.t = "null"  -> <<"n", "u", "l", "l">>
    [] OTHER             -> <<"u", "n", "d", "e", "f", "i", "n", "e", "d">>

\* typeof value === "object"
TypeofObject(value) == value.t \in {"obj", "arr", "null"}

\* parentKey ?? fallback and parentKey || fallback
OrIfAbsent(parentKey, fallback) == IF IsUndef(parentKey) THEN fallback ELSE parentKey.v
OrIfFalsy(parentKey, fallback) == IF Truthy(parentKey) THEN parentKey.v ELSE fallback

\* Object.entries(obj).filter(([, v]) => v !== undefined && v !== null)
DefinedEntries(es) == SelectSeq(es, LAMBDA e : e.v.t \notin {"undef", "null"})

RECURSIVE objToXml(_, _)
RECURSIVE ItemsToXml(_, _)
RECURSIVE EntriesToXml(_, _)

\* lines 112-114: the items of an array, each under an item tag
ItemsToXml(items, i) ==
  IF i > Len(items) THEN <<>>
  ELSE wrapTag(<<"i", "t", "e", "m">>,
               IF TypeofObject(items[i]) THEN objToXml(items[i], Undefined)
               ELSE String(items[i]))
       \o ItemsToXml(items, i + 1)

\* lines 125-131: an entry with a scalar value is written under its key as it is
EntriesToXml(entries, i) ==
  IF i > Len(entries) THEN <<>>
  ELSE (IF TypeofObject(entries[i].v)
        THEN objToXml(entries[i].v, Str(entries[i].k))
        ELSE Tag(entries[i].k, String(entries[i].v)))
       \o EntriesToXml(entries, i + 1)

objToXml(obj, parentKey) ==
  IF IsArr(obj)
  THEN wrapTag(OrIfAbsent(parentKey, <<"a", "r", "r", "a", "y">>), ItemsToXml(obj.v, 1))
  ELSE IF IsObj(obj)
  THEN IF DefinedEntries(obj.v) = <<>>
       THEN wrapTag(OrIfFalsy(parentKey, <<"e", "m", "p", "t", "y">>), <<>>)
       ELSE IF Truthy(parentKey)
       THEN wrapTag(parentKey.v, EntriesToXml(DefinedEntries(obj.v), 1))
       ELSE EntriesToXml(DefinedEntries(obj.v), 1)
  ELSE wrapTag(OrIfFalsy(parentKey, <<"v", "a", "l", "u", "e">>), String(obj))

\* the trees handed to objToXml: keys that are safe names, that start with a
\* digit or an underscore, and that hold a hyphen; text, null, sequences and
\* nested objects as values, down to MaxTreeDepth levels
MaxTreeDepth == 3
K_2x == <<"2", "x">>
K_a_b == <<"a", "-", "b">>
K__k == <<"_", "k">>
TreeKeys == {K_city, K_2x, K_a_b, K__k}
TreeScalars == {Str(V_Oslo), Null}

RECURSIVE TreesOf(_)
TreesOf(depth) ==
  IF depth = 0 THEN TreeScalars
  ELSE TreeScalars
       \cup {Obj(<<Entry(k, t)>>) : k \in TreeKeys, t \in TreesOf(depth - 1)}
       \cup {Obj(<<Entry(K_city, t), Entry(K_2x, Str(V_Oslo))>>) : t \in TreesOf(depth - 1)}
       \cup {Arr(<<t>>) : t \in TreesOf(depth - 1)}
       \cup {Arr(<<Str(V_Oslo), t>>) : t \in TreesOf(depth - 1)}

\* objToXml is called with a tree, as the prompt builders call it (no parentKey)
EncodeTree ==
  /\ computed = NotComputed
  /\ \E tree \in TreesOf(MaxTreeDepth) :
       computed' = [fn |-> "objToXml", input |-> tree, kind |-> "none",
                    output |-> objToXml(tree, Undefined)]
  /\ UNCHANGED <<returned, measured, frame, settled, decoded, agent, config, pc, rawInput,
                 validatedInput, relevantServers, serverIdx, tools, relevantTools,
                 toolIdx, toolResults, discovered, trace, lastReply, assembled,
                 usedFallback, outcome>>

SpecEncode == Init /\ [][EncodeTree]_vars

\* the position of the first ">" of text at or after from (past the end if none)
RECURSIVE TagEnd(_, _)
TagEnd(text, from) ==
  IF from > Len(text) \/ text[from] = ">" THEN from ELSE TagEnd(text, from + 1)

\* the names of the opening and closing tags of text
RECURSIVE TagNamesFrom(_, _)
TagNamesFrom(text, from) ==
  IF from > Len(text) THEN {}
  ELSE IF text[from] # "<" THEN TagNamesFrom(text, from + 1)
  ELSE IF from < Len(text) /\ text[from + 1] = "/"
  THEN {SubSeq(text, from + 2, TagEnd(text, from) - 1)}
       \cup TagNamesFrom(text, TagEnd(text, from) + 1)
  ELSE {SubSeq(text, from + 1, TagEnd(text, from) - 1)}
       \cup TagNamesFrom(text, TagEnd(text, from) + 1)

IsSafeTagName(name) ==
  /\ name # <<>>
  /\ name[1] \in Letters
  /\ \A i \in 1..Len(name) : name[i] \in WordChars

\* C32: every tag name of the text objToXml produces consists of letters,
\* digits and underscores and starts with a letter, whatever the key's depth
\* and the kind of its value
C32_EveryTagNameIsSafe ==
  computed.fn = "objToXml" =>
    \A name \in TagNamesFrom(computed.output, 1) : IsSafeTagName(name)


(***************************************************************************)
(* convertValue, src/uai.ts:193-219                                        *)
(***************************************************************************)
NaN == [t |-> "nan", v |-> 0]
NoSchema == [typeName |-> "none"]

\* value.replace(/[^\d.-]/g, '')
StripNonNumeric(value) == SelectSeq(value, LAMBDA c : c \in Digits \cup {".", "-"})

\* the positions of the dots of s
DotsOf(s) == {i \in 1..Len(s) : s[i] = "."}

\* digits with at most one dot among them and at least one digit
IsUnsignedNumeral(s) ==
  /\ \A i \in 1..Len(s) : s[i] \in Digits \cup {"."}
  /\ Cardinality(DotsOf(s)) <= 1
  /\ \E i \in 1..Len(s) : s[i] \in Digits

\* a decimal numeral with an optional minus sign
IsNumeral(s) ==
  \/ IsUnsignedNumeral(s)
  \/ s # <<>> /\ s[1] = "-" /\ IsUnsignedNumeral(SubSeq(s, 2, Len(s)))

UnsignedNumber(neg, s) ==
  IF DotsOf(s) = {} THEN NumOf(neg, s, <<>>)
  ELSE NumOf(neg, SubSeq(s, 1, (CHOOSE d \in DotsOf(s) : TRUE) - 1),
             SubSeq(s, (CHOOSE d \in DotsOf(s) : TRUE) + 1, Len(s)))

\* Number(s) for a text of digits, dots and minus signs: the empty text is 0
Number(s) ==
  IF s = <<>> THEN Zero
  ELSE IF ~ IsNumeral(s) THEN NaN
  ELSE IF s[1] = "-" THEN UnsignedNumber(TRUE, SubSeq(s, 2, Len(s)))
  ELSE UnsignedNumber(FALSE, s)

\* lines 197-200: unwrap optional and nullable
RECURSIVE BaseSchema(_)
BaseSchema(schema) ==
  IF schema.typeName \in {"ZodOptional", "ZodNullable"}
  THEN BaseSchema(schema.inner)
  ELSE schema

\* the switch of lines 203-214
ConvertByKind(value, typeName) ==
  CASE typeName = "ZodNumber" ->
         IF Number(StripNonNumeric(value)).t = "nan" THEN Threw
         ELSE Number(StripNonNumeric(value))
    [] typeName = "ZodBoolean" -> Bool(toLowerCase(value) = C_true)
    [] OTHER -> Str(trim(value))

convertValue(value, fieldSchema) ==
  IF fieldSchema = NoSchema THEN Str(value)
  ELSE IF ConvertByKind(value, BaseSchema(fieldSchema).typeName).t = "threw"
  THEN Str(value)
  ELSE ConvertByKind(value, BaseSchema(fieldSchema).typeName)

\* the texts and field kinds handed to convertValue
MaxTextLen == 3
ConvertChars == {"4", "0", ".", "-", "x", " "}

RECURSIVE TextsOver(_, _)
TextsOver(chars, n) ==
  IF n = 0 THEN {<<>>}
  ELSE TextsOver(chars, n - 1)
       \cup {<<c>> \o t : c \in chars, t \in TextsOver(chars, n - 1)}

ConvertTexts == TextsOver(ConvertChars, MaxTextLen) \cup {C_true, V_Oslo}
ConvertSchemas ==
  {NoSchema, ZodNumber, ZodString, ZodBoolean, ZodOptional(ZodNumber),
   ZodNullable(ZodOptional(ZodNumber)), ZodOptional(ZodBoolean),
   ZodEnum(<<V_Oslo>>)}

\* convertValue is called with a text and a field schema
ConvertText ==
  /\ computed = NotComputed
  /\ \E value \in ConvertTexts, fieldSchema \in ConvertSchemas :
       computed' = [fn |-> "convertValue", input |-> Str(value),
                    kind |-> IF fieldSchema = NoSchema THEN "none"
                             ELSE BaseSchema(fieldSchema).typeName,
                    output |-> convertValue(value, fieldSchema)]
  /\ UNCHANGED <<returned, measured, frame, settled, decoded, agent, config, pc, rawInput,
                 validatedInput, relevantServers, serverIdx, tools, relevantTools,
                 toolIdx, toolResults, discovered, trace, lastReply, assembled,
                 usedFallback, outcome>>

SpecConvert == Init /\ [][ConvertText]_vars

\* x is the text s
IsText(x, s) == x.t = "str" /\ x.v = s

\* C33: convertValue never raises; for kind number its result is the number
\* parsed from the text stripped of everything but digits, dots and minus
\* signs, or the original text, and it is the original text whenever the
\* stripped text is not a valid numeral, also when nothing is left of it
C33_ConvertDegradesToOriginalText ==
  computed.fn = "convertValue" =>
    /\ computed.output.t # "threw"
    /\ computed.kind = "ZodNumber" =>
         /\ \/ IsText(computed.output, computed.input.v)
            \/ /\ IsNumeral(StripNonNumeric(computed.input.v))
               /\ computed.output.t = "num"
               /\ computed.output = Number(StripNonNumeric(computed.input.v))
         /\ ~ IsNumeral(StripNonNumeric(computed.input.v)) =>
              IsText(computed.output, computed.input.v)


\* ---------------------------------------------------------------------------
\* The markers of nested scopes (lines 15-46; run opens its scope with the
\* requestId of line 361 and every scope below it through the function handed
\* to the operation)
\* ---------------------------------------------------------------------------

\* the level a line of the log was written at
LevelOfIndent(indent) == IF indent = 0 THEN 0 ELSE indent - 1

\* an enter marker written while the scopes of stack are open: the outermost
\* one at level 0, any other one level below its parent with its requestId
EntersBelow(line, stack) ==
  IF stack = <<>> THEN line.indent = Indent(0)
  ELSE /\ line.indent = Indent(LevelOfIndent(stack[Len(stack)].indent) + 1)
       /\ line.requestId = stack[Len(stack)].requestId

\* an exit marker of the scope that wrote the enter marker opened
Exits(line, opened) ==
  /\ line.action = opened.action
  /\ line.indent = opened.indent
  /\ line.requestId = opened.requestId

\* the scope wrote the enter marker opened and is still open
StillOpen(scope, opened) ==
  /\ scope.action = opened.action
  /\ Indent(scope.level) = opened.indent
  /\ scope.requestId = opened.requestId

\* the lines of log from position i on open and close scopes as a stack does,
\* stack being the enter markers without exit marker so far, and leave open
\* exactly the scopes of open
RECURSIVE StackDiscipline(_, _, _, _)
StackDiscipline(log, i, stack, open) ==
  IF i > Len(log)
  THEN /\ Len(stack) = Len(open)
       /\ \A d \in 1..Len(stack) : StillOpen(open[d], stack[d])
  ELSE IF log[i].mark = ">"
  THEN /\ EntersBelow(log[i], stack)
       /\ StackDiscipline(log, i + 1, Append(stack, log[i]), open)
  ELSE /\ stack # <<>>
       /\ Exits(log[i], stack[Len(stack)])
       /\ StackDiscipline(log, i + 1, SubSeq(stack, 1, Len(stack) - 1), open)

\* C34: the markers of the scopes obey stack discipline: every scope that
\* logged an enter marker and is no longer open logged exactly one exit
\* marker, after the exit markers of all scopes opened inside it, and every
\* child scope is one level below its parent and carries its requestId
C34_ScopeMarkersNestAsAStack ==
  StackDiscipline(measured.log, 1, <<>>, measured.scopes)

\* three scopes nested in each other under a requestId have all closed, the
\* innermost one by failing
C34_Witness ==
  /\ measured.scopes = <<>>
  /\ Len(measured.log) = 6
  /\ measured.log[3] = LogLine(">", "Generate response", 2, "r1")
  /\ measured.log[4] = LogLine("x", "Generate response", 2, "r1")
  /\ measured.log[6] = LogLine("ok", "Agent.run", 0, "r1")


\* ---------------------------------------------------------------------------
\* A generation request that fails (lines 436-458, 671-682)
\* ---------------------------------------------------------------------------

\* the generation request raised
GenerationFailed == lastReply = Reply("response_generation", Threw)

\* C35: when the generation request raises, run does not reject with that
\* error: it builds the wholesale fallback object from the input and resolves
\* with it whenever that object passes validation against the output schema
C35_FailedGenerationResolvesWithFallback ==
  GenerationFailed =>
    /\ pc = "done"
    /\ usedFallback
    /\ outcome.error # "LLM API error"
    /\ Parse(config.outputFormat, FallbackObject).ok =>
         /\ outcome.status = "resolved"
         /\ outcome.value = Parse(config.outputFormat, FallbackObject).value

\* after tool work the generation request raised and the run resolved with
\* the fallback object
C35_Witness ==
  /\ GenerationFailed
  /\ toolResults # <<>>
  /\ config.outputFormat = F_chat
  /\ outcome = Resolved(FallbackObject)


\* ---------------------------------------------------------------------------
\* What an invocation call rests on (lines 397-427, 584-601)
\* ---------------------------------------------------------------------------

\* the positions in tr of the invocation calls
InvocationPositions(tr) ==
  {p \in 1..Len(tr) : tr[p].what = "call" /\ tr[p].item.kind = "invokeTool"}

\* a tool_invocation update naming key was emitted before position p of tr
AnnouncedBefore(tr, p, key) ==
  \E q \in 1..(p - 1) :
    /\ tr[q].what = "event"
    /\ tr[q].item.stage = "tool_invocation"
    /\ tr[q].item.data = Str(key)

\* every invocation call of tr is for a selected server and was announced
InvocationsRest(tr, invocations, selected) ==
  \A p \in invocations :
    /\ \E s \in 1..Len(selected) : selected[s] = tr[p].item.server
    /\ AnnouncedBefore(tr, p, ResultKey(tr[p].item.server, tr[p].item.tool))

\* name is an element of the sequence names
Among(name, names) == \E i \in 1..Len(names) : names[i] = name

\* C36: an invocation call for a tool on a server is issued only if the
\* server is in the server selection result of the run, the tool is in the
\* discovery reply of the server and in the tool selection result for it, and
\* a tool_invocation update naming server.tool was emitted before
C36_InvocationOnlyOfSelectedTool ==
  /\ InvocationsRest(trace, InvocationPositions(trace), relevantServers)
  /\ pc = "invokeTool" =>
       /\ LastCall(calls).kind = "invokeTool"
       /\ LastCall(calls).server = relevantServers[serverIdx]
       /\ Among(LastCall(calls).server, discovered)
       /\ Among(LastCall(calls).tool, tools)
       /\ Among(LastCall(calls).tool, relevantTools)

\* of two discovered tools the second one alone was selected and is invoked
C36_Witness ==
  /\ pc = "invokeTool"
  /\ tools = <<N_forecast, N_add>>
  /\ relevantTools = <<N_add>>
  /\ LastCall(calls).tool = N_add


\* ---------------------------------------------------------------------------
\* The keys of the assembled object (lines 693-720, 441-444)
\* ---------------------------------------------------------------------------

\* the keys of the entries es, and the fields a shape declares, as sets
KeySet(es) == {es[i].k : i \in 1..Len(es)}
FieldSet(shape) == {shape[i].k : i \in 1..Len(shape)}

\* C37: the assembled object has exactly the fields the output schema
\* declares as its keys, each once: a tag of the generation reply that is not
\* an output field is a key neither of the assembled object nor of the value
\* run resolves with
C37_AssembledKeysAreTheOutputFields ==
  /\ assembled # None =>
       /\ KeySet(assembled.v) = FieldSet(config.outputFormat.shape)
       /\ Len(assembled.v) = Len(config.outputFormat.shape)
  /\ outcome.status = "resolved" =>
       KeySet(outcome.value.v) \subseteq FieldSet(config.outputFormat.shape)

\* a run resolved from a reply that holds the output field next to a tag that
\* is not an output field
C37_Witness ==
  /\ outcome.status = "resolved"
  /\ ~ usedFallback
  /\ config.outputFormat = F_answer
  /\ lastReply = Reply("response_generation",
                       Str(Tag(K_answer, V_degrees) \o Tag(K_count, V_42)))
  /\ HasKey(xmlToObj(lastReply.response).v, K_count)
  /\ KeySet(assembled.v) = {K_answer}


\* ---------------------------------------------------------------------------
\* Termination and the number of calls (lines 360-460, 292-350)
\* ---------------------------------------------------------------------------

\* the positions in tr of the discovery calls
DiscoveryPositions(tr) ==
  {p \in 1..Len(tr) : tr[p].what = "call" /\ tr[p].item.kind = "discoverTools"}

\* no two of the discovery calls are for the same server
OncePerServer(tr, discoveries) ==
  \A i \in discoveries : \A j \in discoveries :
    tr[i].item.server = tr[j].item.server => i = j

\* no two of the invocations are for the same tool of the same server
OncePerTool(tr, invocations) ==
  \A i \in invocations : \A j \in invocations :
    (tr[i].item.server = tr[j].item.server /\ tr[i].item.tool = tr[j].item.tool) => i = j

\* the positions in tr of the parameter-generation requests
ParameterRequests(tr) ==
  {p \in 1..Len(tr) : tr[p].what = "call" /\ tr[p].item.stage = "parameter_generation"}

\* each parameter-generation request follows the update announcing its tool,
\* and no two of them are for the same tool
ParametersOncePerTool(tr, requests) ==
  /\ \A p \in requests :
       tr[p - 1].what = "event" /\ tr[p - 1].item.stage = "tool_invocation"
  /\ \A p \in requests : \A q \in requests :
       tr[p - 1].item.data = tr[q - 1].item.data => p = q

\* C38: when no external call stays outstanding for ever, every run that was
\* started eventually resolves or rejects, and it issues at most one discovery
\* call per selected server and at most one parameter-generation request and
\* one invocation call per selected tool
C38_EveryRunSettlesWithBoundedCalls ==
  /\ (pc # "idle") ~> (pc = "done" /\ outcome.status \in {"resolved", "rejected"})
  /\ [](/\ OncePerServer(trace, DiscoveryPositions(trace))
        /\ OncePerTool(trace, InvocationPositions(trace))
        /\ ParametersOncePerTool(trace, ParameterRequests(trace)))

\* a run has settled after discovering two servers and invoking a tool of each
C38_Witness ==
  /\ pc = "done"
  /\ outcome.status = "resolved"
  /\ Cardinality(DiscoveryPositions(trace)) = 2
  /\ Cardinality(InvocationPositions(trace)) = 2
  /\ Cardinality(ParameterRequests(trace)) = 2


-----------------------------------------------------------------------------
\* The options of the completion requests, src/uai.ts:671-682, 519-527, 236-261

ConfiguredTemperature == NumOf(FALSE, <<"0">>, <<"2">>)
ConfiguredMaxTokens == NumOf(FALSE, <<"1", "0", "0", "0">>, <<>>)

\* configurations of one server that leave the options out, set them to 0 or
\* set them to another number, for a model of either provider
OptionConfigs ==
  {WithOptions(AgentConfig(SubSeq(ServerPool, 1, 1), F_answer), llm, temperature, maxTokens) :
     llm \in {L_gpt4o, L_claude},
     temperature \in {Undefined, Zero, ConfiguredTemperature},
     maxTokens \in {Undefined, Zero, ConfiguredMaxTokens}}

\* the constructor called with one of these configurations
ConstructWithOptions ==
  /\ agent = "none"
  /\ \E c \in OptionConfigs : config' = c
  /\ agent' = "constructed"
  /\ UNCHANGED <<computed, returned, measured, frame, settled, decoded, discovered, pc, rawInput,
                 validatedInput, relevantServers, serverIdx, tools, relevantTools, toolIdx,
                 toolResults, trace, lastReply, assembled, usedFallback, outcome>>

NextOptions ==
  \/ ConstructWithOptions
  \/ Run
  \/ ServerSelectionReturns
  \/ SelectionFails
  \/ DiscoveryReturns
  \/ ToolSelectionReturns
  \/ ParametersReturn
  \/ ToolFails
  \/ InvokeReturns
  \/ GenerationReturns
  \/ GenerationFails

SpecOptions == Init /\ [][NextOptions]_vars

\* the value a request carries for an option: the configured one when the
\* option is configured, the default when it is not
ConfiguredOr(option, default) == IF IsUndef(option) THEN default ELSE option

RequestsOf(cs, stages) == {i \in 1..Len(cs) : cs[i].kind = "callLLM" /\ cs[i].stage \in stages}

OptionsAsConfigured(cs) ==
  /\ \A i \in RequestsOf(cs, {"response_generation"}) :
       /\ cs[i].temperature = ConfiguredOr(config.temperature, DefaultTemperature)
       /\ cs[i].maxTokens = ConfiguredOr(config.maxTokens, DefaultMaxTokens)
  /\ \A i \in RequestsOf(cs, {"server_selection", "tool_selection", "parameter_generation"}) :
       cs[i].temperature = SelectionTemperature

\* C39: the generation request carries the configured temperature and
\* maxTokens whenever they are configured, 0 included, and 0.7 and 4000 only
\* when they are not; every server-selection, tool-selection and
\* parameter-generation request carries temperature 0.3
C39_RequestsCarryConfiguredOptions == OptionsAsConfigured(calls)

=============================================================================
